---- MODULE Spec2Model ----
(***************************************************************************)
(* Model of the download pipeline of video-dl-bot: the channel-based       *)
(* Limiter (Acquire / Release), the per-message handler returned by        *)
(* Bot.handleMessages, and ytdlp.Download with its scratch directory.      *)
(*                                                                         *)
(* Every message is served by its own goroutine (one element of Handlers). *)
(* The handlers share the limiter channel and the context handed to        *)
(* NewBot (pCtx); each handler's own ctx is derived from pCtx and is only  *)
(* cancelled by its deferred cancel(), i.e. when the handler returns.      *)
(*                                                                         *)
(* filestorage.UploadToFileBin and Bot.setChatAction are followed step by  *)
(* step in specifications of their own (UploadSpec, SignalSpec), one call  *)
(* each; in Spec they are the single steps Deliver and the signals set.    *)
(* FairSpec is Spec under a fair scheduler.                                *)
(***************************************************************************)
EXTENDS Naturals, Integers, Sequences, FiniteSets, TLC

\* ---------------------------------------------------------------- bounds
\* number of messages (handler goroutines) of one run
NumHandlers == 2
\* largest limiter capacity tried; 0 (no limiting) is always tried as well
MaxCap == 1
\* longest content, in bytes, of a reader handed to UploadToFileBin
MaxContentLen == 2
\* most notifications of one chat action: the loop is followed through
\* MaxNotify - 1 intervals
MaxNotify == 3
\* most calls of one stop function by the handler: the eager one and the
\* deferred one
MaxStops == 2
\* longest stderr output, in characters, of a process started by Run
MaxStderrLen == 3
\* most pieces (words, white space, links) of a text given to ExtractLink
MaxPieces == 3
\* largest number given as --max-concurrent-downloads or handed to
\* WithMaxConcurrentDownloads; it lies above the largest one accepted
MaxFlagValue == 101
\* most options handed to one call of Download
MaxOpts == 2
\* most updates the polling loop hands to handlers during one Bot.Start
MaxUpdates == 4

\* ------------------------------------------------------ program constants
\* telegram upload limit in MB: `if fileSizeMb <= 50`
InlineLimitMb == 50
\* bytes per MB as the handler computes it: float64(size) / 1024 / 1024
BytesPerMb == 1048576
\* http.StatusCreated, the status of an accepted upload
StatusCreated == 201
\* http.StatusOK, the status of a locked bin
StatusOK == 200
\* app.opt.MaxConcurrentDownloads as NewApp sets it
DefaultMaxConcurrentDownloads == 5

Handlers == 1..NumHandlers

\* the files the external tool may leave in the scratch directory under the
\* output template result.%(ext)s with --write-info-json
ToolFiles == {"result.mp4", "result.webm", "result.info.json"}

\* sizes of a downloaded file, around the inline limit
FileSizes == { InlineLimitMb * BytesPerMb - 1,
               InlineLimitMb * BytesPerMb,
               InlineLimitMb * BytesPerMb + 1 }

VARIABLES
    capacity,     \* cap(lim): make(Limiter, bot.maxConcurrentDownloads)
    releaseGuard, \* TRUE: Release starts with `if cap(lim) == 0 { return }`
                  \* FALSE: Release is the bare receive `<-lim`
    lim,          \* len(lim): number of elements in the channel buffer
    sendq,        \* goroutines parked in Acquire's select, in arrival order
    ctxDone,      \* pCtx has been cancelled
    children,     \* pCtx's children: the handlers whose derived ctx is
                  \* registered with pCtx and not cancelled yet
    pc,           \* position of each handler
    slot,         \* the handler's send `lim <- struct{}{}` went through and
                  \* it has not received from lim since
    acqErr,       \* what Acquire returned: "none" (not yet), "nil", "err"
    calledDone,   \* ctx was already cancelled when Acquire was called
    scratch,      \* the Download call's scratch directory
    toolFiles,    \* names of the files in the scratch directory
    runErr,       \* runner.Run returned an error
    dlRes,        \* what Download returned: "none", "ok", "err"
    dlVal,        \* Download's first return value is a non-nil *Downloaded
    dlWhy,        \* the error Download returned, by the statement returning
                  \* it; "nil" for no error, "none" outside the call's return
    file,         \* the relocated result file (os.CreateTemp / os.Rename)
    fsize,        \* stat.Size() of the relocated file, 0 when not stat-ed
    marker,       \* reaction on the user's message
    signals,      \* chat actions started by setChatAction and not stopped
    reply,        \* last text reply sent to the user
    delivered,    \* how the video reached the user
    outcome,      \* the return statement the handler left through
    defers,       \* the handler's deferred calls, in the order of the defer
                  \* statements (they run last to first)
    releases,     \* how many calls of lim.Release() each handler completed
    up,           \* one call of filestorage.UploadToFileBin: its arguments,
                  \* its position, the requests it made and what it returned
    sig,          \* one call of Bot.setChatAction: its context, its
                  \* background loop and the calls of its stop function
    run,          \* one call of systemRunner.Run: what the process does,
                  \* what cmd.Run left behind and what Run returned
    ex,           \* one call of ExtractLink: its text and what it returned
    cfg,          \* the start of the application: the flag's value, the
                  \* outcome of its validation and the bot built from it
    inv,          \* one call of ytdlp.Download up to runner.Run: its options,
                  \* its URL, its scratch directory and the argument list
    st,           \* one call of Bot.Start: its context, the polling loop,
                  \* the goroutine that stops the client
    pid           \* one run of the command's action: the pid file on disk
                  \* and what the action did with it

pipeVars == << capacity, releaseGuard, lim, sendq, ctxDone, children, pc,
           slot, acqErr, calledDone, scratch, toolFiles, runErr, dlRes, dlVal, dlWhy,
           file, fsize, marker, signals, reply, delivered, outcome, defers,
           releases >>

\* the calls modelled on their own
callVars == << up, sig, run, ex, cfg, inv, st, pid >>

\* the calls added last
appVars == << inv, st, pid >>

\* the calls that are functions of their arguments
pureVars == << run, ex, cfg >>

vars == << pipeVars, callVars >>

limVars == << lim, sendq, slot >>
ctxVars == << ctxDone, children >>
dlVars == << scratch, toolFiles, runErr, dlRes, dlVal, dlWhy, file >>
chatVars == << marker, signals, reply, delivered >>

PipelineInit ==
    /\ capacity \in 0..MaxCap
    /\ releaseGuard \in BOOLEAN
    /\ lim = 0
    /\ sendq = << >>
    /\ ctxDone = FALSE
    /\ children = {}
    /\ pc = [h \in Handlers |-> "idle"]
    /\ slot = [h \in Handlers |-> FALSE]
    /\ acqErr = [h \in Handlers |-> "none"]
    /\ calledDone = [h \in Handlers |-> FALSE]
    /\ scratch = [h \in Handlers |-> "none"]
    /\ toolFiles = [h \in Handlers |-> {}]
    /\ runErr = [h \in Handlers |-> FALSE]
    /\ dlRes = [h \in Handlers |-> "none"]
    /\ dlVal = [h \in Handlers |-> FALSE]
    /\ dlWhy = [h \in Handlers |-> "none"]
    /\ file = [h \in Handlers |-> "none"]
    /\ fsize = [h \in Handlers |-> 0]
    /\ marker = [h \in Handlers |-> "none"]
    /\ signals = [h \in Handlers |-> {}]
    /\ reply = [h \in Handlers |-> "none"]
    /\ delivered = [h \in Handlers |-> "none"]
    /\ outcome = [h \in Handlers |-> "none"]
    /\ defers = [h \in Handlers |-> << >>]
    /\ releases = [h \in Handlers |-> 0]

\* UploadToFileBin has not been called
UploadIdle ==
    [pc |-> "idle", content |-> << >>, pos |-> 0, name |-> "", bin |-> "",
     size |-> 0, hash |-> << >>, req |-> << >>, status |-> 0,
     lockStatus |-> 0, log |-> << >>, url |-> << >>, err |-> "none"]

\* setChatAction has not been called
SignalIdle ==
    [loop |-> "idle", action |-> "", done |-> FALSE, parentDone |-> FALSE,
     sent |-> 0, ticks |-> 0, failed |-> FALSE, stops |-> 0,
     panicked |-> FALSE]

\* systemRunner.Run has not been called
RunIdle ==
    [pc |-> "idle", stderr |-> << >>, exit |-> "nil", buf |-> << >>,
     cmdErr |-> "nil", result |-> FALSE, err |-> << >>]

\* ExtractLink has not been called
ExtractIdle ==
    [pc |-> "idle", pieces |-> << >>, text |-> << >>,
     url |-> [nil |-> TRUE, scheme |-> << >>, host |-> << >>,
              path |-> << >>],
     err |-> "none", release |-> "none"]

\* the application has not been started
ConfigIdle ==
    [pc |-> "idle", via |-> "", set |-> FALSE, flag |-> 0, opt |-> 0,
     max |-> 0]

\* ytdlp.Download has not been called
InvokeIdle ==
    [pc |-> "idle", opts |-> << >>, url |-> "", tmpDir |-> "",
     cookiesFile |-> "", jsRuntimes |-> "", args |-> << >>]

\* Bot.Start has not been called
StartIdle ==
    [pc |-> "idle", stopper |-> "idle", ctxDone |-> FALSE,
     stopCalled |-> FALSE, stopped |-> FALSE, updates |-> 0, handled |-> 0]

\* the command's action has not run
PidIdle ==
    [pc |-> "idle", flagPath |-> FALSE, flagHealth |-> FALSE,
     optPidFile |-> FALSE, optHealth |-> FALSE, found |-> "absent",
     disk |-> "absent", alive |-> FALSE, removeDeferred |-> FALSE,
     bot |-> "none", err |-> "none", reads |-> 0, writes |-> 0,
     removes |-> 0]

AppIdle ==
    /\ inv = InvokeIdle
    /\ st = StartIdle
    /\ pid = PidIdle

PureIdle ==
    /\ run = RunIdle
    /\ ex = ExtractIdle
    /\ cfg = ConfigIdle
    /\ AppIdle

Init ==
    /\ PipelineInit
    /\ up = UploadIdle
    /\ sig = SignalIdle
    /\ PureIdle

\* -------------------------------------------------------------- context
\* the handler's ctx, derived from pCtx by context.WithCancel, is done:
\* pCtx is cancelled and the handler's ctx is not among the children pCtx
\* has still to cancel (ctx.Err() != nil, <-ctx.Done() does not block)
CtxDone(h) == ctxDone /\ h \notin children

\* pCtx is cancelled: its err is set and its done channel closed. The
\* contexts derived from it are cancelled after that, one at a time.
Cancel ==
    /\ ~ctxDone
    /\ ctxDone' = TRUE
    /\ UNCHANGED << callVars, capacity, releaseGuard, releases, children,
                    limVars, pc, acqErr, calledDone,
                    dlVars, fsize, chatVars, outcome, defers >>

\* a sequence without its element h
Without(q, h) == SelectSeq(q, LAMBDA g : g # h)

\* the cancellation of pCtx reaches one child, `child.cancel(false, err,
\* cause)` in the loop over pCtx's children: close(done) wakes the goroutine
\* parked on <-ctx.Done(); a goroutine parked in Acquire's select leaves the
\* channel's send queue and resumes in `case <-ctx.Done()`
CancelChild(h) ==
    /\ ctxDone
    /\ h \in children
    /\ children' = children \ {h}
    /\ IF pc[h] = "parked"
         THEN /\ sendq' = Without(sendq, h)
              /\ pc' = [pc EXCEPT ![h] = "woken"]
         ELSE UNCHANGED << sendq, pc >>
    /\ UNCHANGED << callVars, capacity, releaseGuard, releases, ctxDone,
                    lim, slot, acqErr, calledDone,
                    dlVars, fsize, chatVars, outcome, defers >>

\* ----------------------------------------------------------- the limiter
\* a send that never waits: the channel's bound is ignored
SendAlwaysReady == TRUE

\* a send that admits one element more than the buffer holds
SendReadyOffByOne == lim <= capacity

\* `case lim <- struct{}{}` can proceed: the buffer has room
SendReady == lim < capacity

\* `case <-ctx.Done()` can proceed
DoneReady(h) == CtxDone(h)

\* a handler that goes on to the download whatever Acquire returned
AcquireReturnIgnoresErr(h, err) ==
    /\ acqErr' = [acqErr EXCEPT ![h] = IF err THEN "err" ELSE "nil"]
    /\ pc' = [pc EXCEPT ![h] = "mkdir"]
    /\ marker' = [marker EXCEPT ![h] = "downloading"]
    /\ signals' = [signals EXCEPT ![h] = {"downloading"}]
    /\ defers' = [defers EXCEPT ![h] = defers[h] \o
          << "Release", "clearReactions", "stopDownloading" >>]
    /\ UNCHANGED << outcome, children >>

\* handleMessages after `lim.Acquire(ctx)` returned: `return err`, or the
\* defers of Release and clearReactions, the downloading reaction and the
\* downloading chat action with its deferred stop. The deferred cancel()
\* of a handler that returns takes its ctx out of pCtx's children.
AcquireReturn(h, err) ==
    /\ acqErr' = [acqErr EXCEPT ![h] = IF err THEN "err" ELSE "nil"]
    /\ IF err
         THEN /\ pc' = [pc EXCEPT ![h] = "returned"]
              /\ outcome' = [outcome EXCEPT ![h] = "acq_cancel"]
              /\ defers' = [defers EXCEPT ![h] = << >>]
              /\ children' = children \ {h}
              /\ UNCHANGED << marker, signals >>
         ELSE /\ pc' = [pc EXCEPT ![h] = "mkdir"]
              /\ marker' = [marker EXCEPT ![h] = "downloading"]
              /\ signals' = [signals EXCEPT ![h] = {"downloading"}]
              /\ defers' = [defers EXCEPT ![h] = defers[h] \o
                    << "Release", "clearReactions", "stopDownloading" >>]
              /\ UNCHANGED << outcome, children >>

\* Limiter.Acquire up to and including its select statement
AcquireSelect(h) ==
    /\ pc[h] = "acquire"
    /\ calledDone' = [calledDone EXCEPT ![h] = CtxDone(h)]
    /\ IF capacity = 0
         THEN \* return ctx.Err()
              /\ AcquireReturn(h, CtxDone(h))
              /\ UNCHANGED limVars
         ELSE \/ \* case lim <- struct{}{}
                 /\ SendReady
                 /\ lim' = lim + 1
                 /\ slot' = [slot EXCEPT ![h] = TRUE]
                 /\ pc' = [pc EXCEPT ![h] = "sent"]
                 /\ UNCHANGED << sendq, acqErr, outcome, defers, marker,
                                 signals, children >>
              \/ \* case <-ctx.Done(): return ctx.Err()
                 /\ DoneReady(h)
                 /\ AcquireReturn(h, TRUE)
                 /\ UNCHANGED limVars
              \/ \* no case is ready: the goroutine parks on both channels
                 /\ ~SendReady
                 /\ ~DoneReady(h)
                 /\ sendq' = Append(sendq, h)
                 /\ pc' = [pc EXCEPT ![h] = "parked"]
                 /\ UNCHANGED << lim, slot, acqErr, outcome, defers, marker,
                                 signals, children >>
    /\ UNCHANGED << callVars, capacity, releaseGuard, releases,
                    ctxDone, dlVars, fsize, reply,
                    delivered >>

\* a send case without the ctx.Err() re-check: it returns nil
AcquireCheckNoVerify(h) ==
    /\ pc[h] \in {"sent", "handed"}
    /\ AcquireReturn(h, FALSE)
    /\ UNCHANGED << callVars, capacity, releaseGuard, releases,
                    limVars, ctxDone, calledDone,
                    dlVars, fsize, reply, delivered >>

\* the body of `case lim <- struct{}{}`: `if err := ctx.Err(); err != nil
\* { return err }`, else fall through to `return nil`
AcquireCheck(h) ==
    /\ pc[h] \in {"sent", "handed"}
    /\ AcquireReturn(h, CtxDone(h))
    /\ UNCHANGED << callVars, capacity, releaseGuard, releases,
                    limVars, ctxDone, calledDone,
                    dlVars, fsize, reply, delivered >>

\* a parked Acquire resumed by the closed Done channel: return ctx.Err()
AcquireWoken(h) ==
    /\ pc[h] = "woken"
    /\ AcquireReturn(h, TRUE)
    /\ UNCHANGED << callVars, capacity, releaseGuard, releases,
                    limVars, ctxDone, calledDone,
                    dlVars, fsize, reply, delivered >>

\* Release returns at once, without touching the channel
ReleaseIsNoop == releaseGuard /\ capacity = 0

\* the receive `<-lim` can proceed: the buffer holds an element (no sender
\* ever waits on an unbuffered lim, Acquire returns before its select)
RecvReady == lim > 0

\* a receive that only wakes the first parked sender, which then runs its
\* select again: the freed place goes to whoever sends first
ReleaseWakesToRetry(h) ==
    /\ pc[h] = "release"
    /\ IF ReleaseIsNoop
         THEN /\ pc' = [pc EXCEPT ![h] = "returned"]
              /\ UNCHANGED limVars
         ELSE /\ RecvReady
              /\ lim' = lim - 1
              /\ slot' = [slot EXCEPT ![h] = FALSE]
              /\ IF sendq # << >>
                   THEN /\ sendq' = Tail(sendq)
                        /\ pc' = [pc EXCEPT ![h] = "returned",
                                            ![Head(sendq)] = "acquire"]
                   ELSE /\ sendq' = sendq
                        /\ pc' = [pc EXCEPT ![h] = "returned"]
    /\ defers' = [defers EXCEPT ![h] = << >>]
    /\ releases' = [releases EXCEPT ![h] = @ + 1]
    /\ children' = children \ {h}
    /\ UNCHANGED << callVars, capacity, releaseGuard,
                    ctxDone, acqErr, calledDone,
                    dlVars, fsize, chatVars, outcome >>

\* the deferred lim.Release(), then the deferred cancel() and the return
Release(h) ==
    /\ pc[h] = "release"
    /\ IF ReleaseIsNoop
         THEN /\ pc' = [pc EXCEPT ![h] = "returned"]
              /\ UNCHANGED limVars
         ELSE /\ RecvReady
              /\ IF sendq # << >>
                   THEN \* the receiver refills the buffer with the first
                        \* parked sender's element and makes it runnable
                        /\ lim' = lim
                        /\ sendq' = Tail(sendq)
                        /\ slot' = [slot EXCEPT ![h] = FALSE,
                                                ![Head(sendq)] = TRUE]
                        /\ pc' = [pc EXCEPT ![h] = "returned",
                                            ![Head(sendq)] = "handed"]
                   ELSE /\ lim' = lim - 1
                        /\ sendq' = sendq
                        /\ slot' = [slot EXCEPT ![h] = FALSE]
                        /\ pc' = [pc EXCEPT ![h] = "returned"]
    /\ defers' = [defers EXCEPT ![h] = << >>]
    /\ releases' = [releases EXCEPT ![h] = @ + 1]
    /\ children' = children \ {h}
    /\ UNCHANGED << callVars, capacity, releaseGuard,
                    ctxDone, acqErr, calledDone,
                    dlVars, fsize, chatVars, outcome >>

\* ----------------------------------------------------------- the handler
\* a handler that goes on to Acquire after the reply to an invalid link
ReceiveThenAcquireAnyway(h, linkOk) ==
    /\ pc[h] = "idle"
    /\ pc' = [pc EXCEPT ![h] = "acquire"]
    /\ defers' = [defers EXCEPT ![h] = << "cancel" >>]
    /\ children' = IF ctxDone THEN children ELSE children \cup {h}
    /\ IF linkOk
         THEN UNCHANGED << marker, reply, outcome >>
         ELSE /\ marker' = [marker EXCEPT ![h] = "bad"]
              /\ reply' = [reply EXCEPT ![h] = "guidance"]
              /\ outcome' = [outcome EXCEPT ![h] = "nolink"]
    /\ UNCHANGED << callVars, capacity, releaseGuard, releases, limVars,
                    ctxDone, acqErr,
                    calledDone, dlVars, fsize, signals, delivered >>

\* the handler's entry: ctx derived from pCtx with its deferred cancel(),
\* ExtractLink(c.Text()) and the invalid-link branch
Receive(h, linkOk) ==
    /\ pc[h] = "idle"
    /\ IF linkOk
         THEN /\ pc' = [pc EXCEPT ![h] = "acquire"]
              /\ defers' = [defers EXCEPT ![h] = << "cancel" >>]
              /\ children' = IF ctxDone THEN children
                                         ELSE children \cup {h}
              /\ UNCHANGED << marker, reply, outcome >>
         ELSE /\ marker' = [marker EXCEPT ![h] = "bad"]
              /\ reply' = [reply EXCEPT ![h] = "guidance"]
              /\ outcome' = [outcome EXCEPT ![h] = "nolink"]
              /\ pc' = [pc EXCEPT ![h] = "returned"]
              /\ UNCHANGED << defers, children >>
    /\ UNCHANGED << callVars, capacity, releaseGuard, releases, limVars,
                    ctxDone, acqErr,
                    calledDone, dlVars, fsize, signals, delivered >>

\* ------------------------------------------------------------- Download
\* the file Download looks for after the run
ResultFile == "result.mp4"

\* the metadata sidecar Download looks for after the run
InfoFile == "result.info.json"

\* a removal placed after the run's error return: it runs only when the
\* runner succeeded
RemoveAllAfterRunOnly(h) ==
    IF runErr[h] THEN scratch ELSE [scratch EXCEPT ![h] = "removed"]

\* `defer func() { _ = os.RemoveAll(tmpDir) }()` running at Download's return
RemoveAllDeferred(h) == [scratch EXCEPT ![h] = "removed"]

\* a return statement that hands out the value together with the error of a
\* failed relocation
DownloadReturnValueOnRenameError(why) ==
    [val |-> why \in {"nil", "rename"}, err |-> why]

\* Download's return statements: `return nil, err` on every failure and
\* `return &Downloaded{...}, nil` at the end
DownloadReturn(why) == [val |-> why = "nil", err |-> why]

\* the failure checks after the run with the metadata file's check left out
DownloadErrorNoInfoCheck(h, infoOk, createOk, renameOk) ==
    IF runErr[h] THEN "run"
    ELSE IF ResultFile \notin toolFiles[h] THEN "noresult"
    ELSE IF ~infoOk THEN "info"
    ELSE IF ~createOk THEN "create"
    ELSE IF ~renameOk THEN "rename"
    ELSE "nil"

\* the first failing step of Download after runner.Run has returned, named
\* by its return statement: "run" (failed to download), "noresult" (os.Stat
\* of the result file), "noinfo" (os.Stat of the metadata file), "info"
\* (open or decode of the metadata), "create" (os.CreateTemp), "rename"
\* (os.Rename); "nil" when every step went through
DownloadError(h, infoOk, createOk, renameOk) ==
    IF runErr[h] THEN "run"
    ELSE IF ResultFile \notin toolFiles[h] THEN "noresult"
    ELSE IF InfoFile \notin toolFiles[h] THEN "noinfo"
    ELSE IF ~infoOk THEN "info"
    ELSE IF ~createOk THEN "create"
    ELSE IF ~renameOk THEN "rename"
    ELSE "nil"

\* a relocation target created inside the scratch directory
ResultDirInScratch == "scratch"

\* the directory of the relocated file: os.CreateTemp("", ...) creates it in
\* os.TempDir(), the directory in which os.MkdirTemp("", ...) made the
\* scratch directory
ResultDir == "TempDir"

\* the relocated file after os.RemoveAll(tmpDir): the removal takes what is
\* inside the scratch directory
AfterRemoveAll(f) ==
    IF ResultDir = "scratch" /\ f \in {"video", "placeholder"}
      THEN "removed" ELSE f

\* Download: os.MkdirTemp, the deferred os.RemoveAll, the argument list and
\* the start of runner.Run
DownloadBegin(h, mkOk) ==
    /\ pc[h] = "mkdir"
    /\ IF mkOk
         THEN /\ scratch' = [scratch EXCEPT ![h] = "exists"]
              /\ pc' = [pc EXCEPT ![h] = "running"]
              /\ UNCHANGED << dlRes, dlVal, dlWhy >>
         ELSE \* return nil, "failed to create temporary directory"
              /\ dlRes' = [dlRes EXCEPT ![h] = "err"]
              /\ dlVal' = [dlVal EXCEPT ![h] = DownloadReturn("mkdir").val]
              /\ dlWhy' = [dlWhy EXCEPT ![h] = DownloadReturn("mkdir").err]
              /\ pc' = [pc EXCEPT ![h] = "downloaded"]
              /\ UNCHANGED scratch
    /\ UNCHANGED << callVars, capacity, releaseGuard, releases, limVars,
                    ctxVars, acqErr,
                    calledDone, toolFiles, runErr, file, fsize, chatVars,
                    outcome, defers >>

\* systemRunner.Run returns: the process has exited, having written `files`
\* into the directory given by --paths. exec.CommandContext kills the
\* process once ctx is done, and cmd.Run then returns an error.
RunnerExit(h, exitOk, files) ==
    /\ pc[h] = "running"
    /\ exitOk => ~CtxDone(h)
    /\ toolFiles' = [toolFiles EXCEPT ![h] = files]
    /\ runErr' = [runErr EXCEPT ![h] = ~exitOk]
    /\ pc' = [pc EXCEPT ![h] = "ran"]
    /\ UNCHANGED << callVars, capacity, releaseGuard, releases, limVars,
                    ctxVars, acqErr,
                    calledDone, scratch, dlRes, dlVal, dlWhy, file, fsize,
                    chatVars,
                    outcome, defers >>

\* Download after runner.Run: the run's error, the two os.Stat checks, the
\* metadata open and decode, os.CreateTemp and os.Rename, the return and
\* the deferred removal of the scratch directory
DownloadFinish(h, infoOk, createOk, renameOk) ==
    /\ pc[h] = "ran"
    /\ LET why == DownloadError(h, infoOk, createOk, renameOk)
           ret == DownloadReturn(why)
       IN  /\ dlRes' = [dlRes EXCEPT ![h] = IF ret.err = "nil" THEN "ok"
                                                              ELSE "err"]
           /\ dlVal' = [dlVal EXCEPT ![h] = ret.val]
           /\ dlWhy' = [dlWhy EXCEPT ![h] = ret.err]
           /\ file' = [file EXCEPT ![h] =
                          AfterRemoveAll(IF why = "nil" THEN "video"
                                         ELSE IF why = "rename"
                                                THEN "placeholder"
                                         ELSE file[h])]
    /\ scratch' = RemoveAllDeferred(h)
    /\ toolFiles' = [toolFiles EXCEPT ![h] = {}]
    /\ runErr' = [runErr EXCEPT ![h] = FALSE]
    /\ pc' = [pc EXCEPT ![h] = "downloaded"]
    /\ UNCHANGED << callVars, capacity, releaseGuard, releases, limVars,
                    ctxVars, acqErr,
                    calledDone, fsize, chatVars, outcome, defers >>

\* ------------------------------------------------- the handler, continued
\* f is among the handler's deferred calls
Deferred(h, f) == \E i \in 1..Len(defers[h]) : defers[h][i] = f

\* the inline limit taken as exclusive
SendsInlineBelowLimit(sz) == sz < InlineLimitMb * BytesPerMb

\* `fileSizeMb <= 50` with fileSizeMb = float64(stat.Size()) / 1024 / 1024;
\* the division by a power of two is exact, so this is a comparison of bytes
SendsInline(sz) == sz <= InlineLimitMb * BytesPerMb

\* a handler that puts the uploading reaction before it opens the file
AfterDownloadReactsFirst(h, statOk, sz, openOk) ==
    /\ pc[h] = "downloaded"
    /\ IF dlRes[h] = "err"
         THEN /\ reply' = [reply EXCEPT ![h] = "fail_download"]
              /\ outcome' = [outcome EXCEPT ![h] = "dl_fail"]
              /\ pc' = [pc EXCEPT ![h] = "cleanup"]
              /\ UNCHANGED << signals, fsize, defers, marker >>
         ELSE IF ~statOk
         THEN /\ signals' = [signals EXCEPT ![h] = @ \ {"downloading"}]
              /\ reply' = [reply EXCEPT ![h] = "fail_stat"]
              /\ outcome' = [outcome EXCEPT ![h] = "stat_fail"]
              /\ pc' = [pc EXCEPT ![h] = "cleanup"]
              /\ UNCHANGED << fsize, defers, marker >>
         ELSE IF ~openOk
         THEN /\ signals' = [signals EXCEPT ![h] = @ \ {"downloading"}]
              /\ fsize' = [fsize EXCEPT ![h] = sz]
              /\ defers' = [defers EXCEPT ![h] = @ \o << "Remove" >>]
              /\ outcome' = [outcome EXCEPT ![h] = "open_fail"]
              /\ pc' = [pc EXCEPT ![h] = "cleanup"]
              /\ marker' = [marker EXCEPT ![h] = "uploading"]
              /\ UNCHANGED reply
         ELSE /\ signals' = [signals EXCEPT ![h] =
                                (@ \ {"downloading"}) \cup {"uploading"}]
              /\ fsize' = [fsize EXCEPT ![h] = sz]
              /\ defers' = [defers EXCEPT ![h] =
                                @ \o << "Remove", "Close", "stopUploading" >>]
              /\ marker' = [marker EXCEPT ![h] = "uploading"]
              /\ pc' = [pc EXCEPT ![h] = "deliver"]
              /\ UNCHANGED << reply, outcome >>
    \* dl and dlErr are not looked at again
    /\ dlWhy' = [dlWhy EXCEPT ![h] = "none"]
    /\ UNCHANGED << callVars, capacity, releaseGuard, releases, limVars,
                    ctxVars, acqErr,
                    calledDone, scratch, toolFiles, runErr, dlRes, dlVal,
                    file, delivered >>

\* from Download's return to the uploading reaction: the download-failure
\* reply, stopDownloadingAction(), os.Stat, the deferred os.Remove, os.Open,
\* the deferred Close, the uploading reaction and chat action
AfterDownload(h, statOk, sz, openOk) ==
    /\ pc[h] = "downloaded"
    /\ IF dlRes[h] = "err"
         THEN /\ reply' = [reply EXCEPT ![h] = "fail_download"]
              /\ outcome' = [outcome EXCEPT ![h] = "dl_fail"]
              /\ pc' = [pc EXCEPT ![h] = "cleanup"]
              /\ UNCHANGED << signals, fsize, defers, marker >>
         ELSE IF ~statOk
         THEN /\ signals' = [signals EXCEPT ![h] = @ \ {"downloading"}]
              /\ reply' = [reply EXCEPT ![h] = "fail_stat"]
              /\ outcome' = [outcome EXCEPT ![h] = "stat_fail"]
              /\ pc' = [pc EXCEPT ![h] = "cleanup"]
              /\ UNCHANGED << fsize, defers, marker >>
         ELSE IF ~openOk
         THEN /\ signals' = [signals EXCEPT ![h] = @ \ {"downloading"}]
              /\ fsize' = [fsize EXCEPT ![h] = sz]
              /\ defers' = [defers EXCEPT ![h] = @ \o << "Remove" >>]
              /\ outcome' = [outcome EXCEPT ![h] = "open_fail"]
              /\ pc' = [pc EXCEPT ![h] = "cleanup"]
              /\ UNCHANGED << reply, marker >>
         ELSE /\ signals' = [signals EXCEPT ![h] =
                                (@ \ {"downloading"}) \cup {"uploading"}]
              /\ fsize' = [fsize EXCEPT ![h] = sz]
              /\ defers' = [defers EXCEPT ![h] =
                                @ \o << "Remove", "Close", "stopUploading" >>]
              /\ marker' = [marker EXCEPT ![h] = "uploading"]
              /\ pc' = [pc EXCEPT ![h] = "deliver"]
              /\ UNCHANGED << reply, outcome >>
    \* dl and dlErr are not looked at again
    /\ dlWhy' = [dlWhy EXCEPT ![h] = "none"]
    /\ UNCHANGED << callVars, capacity, releaseGuard, releases, limVars,
                    ctxVars, acqErr,
                    calledDone, scratch, toolFiles, runErr, dlRes, dlVal,
                    file, delivered >>

\* the size branch: replyWithVideo, or UploadToFileBin(ctx, ...) followed by
\* replyWithLink; a request made with a cancelled ctx fails
Deliver(h, ok) ==
    /\ pc[h] = "deliver"
    /\ IF SendsInline(fsize[h])
         THEN IF ok
                THEN /\ delivered' = [delivered EXCEPT ![h] = "inline"]
                     /\ signals' = [signals EXCEPT ![h] = @ \ {"uploading"}]
                     /\ outcome' = [outcome EXCEPT ![h] = "ok_inline"]
                     /\ UNCHANGED reply
                ELSE /\ reply' = [reply EXCEPT ![h] = "fail_send"]
                     /\ outcome' = [outcome EXCEPT ![h] = "send_fail"]
                     /\ UNCHANGED << delivered, signals >>
         ELSE IF ok /\ ~CtxDone(h)
                THEN /\ delivered' = [delivered EXCEPT ![h] = "link"]
                     /\ outcome' = [outcome EXCEPT ![h] = "ok_link"]
                     /\ UNCHANGED << reply, signals >>
                ELSE /\ reply' = [reply EXCEPT ![h] = "fail_upload"]
                     /\ outcome' = [outcome EXCEPT ![h] = "upload_fail"]
                     /\ UNCHANGED << delivered, signals >>
    /\ pc' = [pc EXCEPT ![h] = "cleanup"]
    /\ UNCHANGED << callVars, capacity, releaseGuard, releases, limVars,
                    ctxVars, acqErr,
                    calledDone, dlVars, fsize, marker, defers >>

\* clearReactions: client.React with an empty list of reactions
ClearReactions(h) == [marker EXCEPT ![h] = "none"]

\* a return that runs the deferred calls but for lim.Release()
CleanupSkipsRelease(h) ==
    /\ pc[h] = "cleanup"
    /\ signals' = [signals EXCEPT ![h] = {}]
    /\ file' = [file EXCEPT ![h] =
                   IF Deferred(h, "Remove") THEN "removed" ELSE @]
    /\ marker' = ClearReactions(h)
    /\ fsize' = [fsize EXCEPT ![h] = 0]
    /\ defers' = [defers EXCEPT ![h] = << >>]
    /\ pc' = [pc EXCEPT ![h] = "returned"]
    /\ children' = children \ {h}
    /\ UNCHANGED << callVars, capacity, releaseGuard, releases, limVars,
                    ctxDone, acqErr, calledDone, scratch, toolFiles, runErr,
                    dlRes, dlVal, dlWhy, reply, delivered, outcome >>

\* the handler returns: its deferred calls run last to first, down to the
\* deferred lim.Release(): stopUploadingAction, fp.Close, os.Remove,
\* stopDownloadingAction, clearReactions, as far as each was deferred
Cleanup(h) ==
    /\ pc[h] = "cleanup"
    /\ signals' = [signals EXCEPT ![h] =
          (@ \ (IF Deferred(h, "stopUploading") THEN {"uploading"} ELSE {}))
             \ (IF Deferred(h, "stopDownloading") THEN {"downloading"} ELSE {})]
    /\ file' = [file EXCEPT ![h] =
                   IF Deferred(h, "Remove") THEN "removed" ELSE @]
    /\ marker' = IF Deferred(h, "clearReactions") THEN ClearReactions(h)
                                                   ELSE marker
    /\ fsize' = [fsize EXCEPT ![h] = 0]
    /\ defers' = [defers EXCEPT ![h] = << "cancel", "Release" >>]
    /\ pc' = [pc EXCEPT ![h] = "release"]
    /\ UNCHANGED << callVars, capacity, releaseGuard, releases, limVars,
                    ctxVars, acqErr,
                    calledDone, scratch, toolFiles, runErr, dlRes, dlVal,
                    dlWhy, reply, delivered, outcome >>

\* ------------------------------------------ filestorage.UploadToFileBin
\* contents of the reader: byte strings up to MaxContentLen
Contents == UNION { [1..n -> {0, 1}] : n \in 0..MaxContentLen }

\* file names: the handler passes "video" + filepath.Ext(dl.Filepath)
FileNames == {"video.mp4", "video.webm"}

\* bin ids: randomString(16) unless given by an option
BinIds == {"bin-a", "bin-b"}

\* statuses the store may answer with
Statuses == {StatusOK, StatusCreated, 500}

\* the steps of the call, in the order of the function's text
UploadSteps == << "size", "hash", "post", "check201", "put", "check200" >>

\* hex-encoded SHA-256 of a byte string; distinct strings have distinct
\* hashes here
Sha256(bytes) == << "sha256", bytes >>

\* io.Copy / the request body: everything from the reader's offset to its end
ReadAll(content, pos) == SubSeq(content, pos + 1, Len(content))

\* fmt.Sprintf("https://filebin.net/%s/%s", o.binId, filename)
UploadURL(bin, name) == << "https://filebin.net", bin, name >>

\* the start of a call: any content, the reader at any offset
UploadCalled ==
    LET calls == { [UploadIdle EXCEPT !.pc = "start", !.content = c,
                                      !.pos = p, !.name = n, !.bin = b] :
                     c \in Contents, p \in 0..MaxContentLen,
                     n \in FileNames, b \in BinIds }
    IN  { u \in calls : u.pos <= Len(u.content) }

\* a return statement of UploadToFileBin: `return "", err` or
\* `return u.String(), nil`
UploadReturn(u, url, err) ==
    [u EXCEPT !.pc = "returned", !.url = url, !.err = err]

\* getFileSize: Seek(0, SeekStart), Seek(0, SeekEnd), Seek(0, SeekStart)
UpGetFileSize(ok) ==
    /\ up.pc = "start"
    /\ LET u == [up EXCEPT !.log = Append(@, "size")]
       IN  up' = IF ok
                   THEN [u EXCEPT !.size = Len(up.content), !.pos = 0,
                                  !.pc = "sized"]
                   ELSE UploadReturn(u, << >>, "size")
    /\ UNCHANGED << pipeVars, sig, pureVars, appVars >>

\* calculateSHA256Hash: Seek(0, SeekStart), io.Copy(hash, r),
\* Seek(0, SeekStart), hex encoding
UpCalculateHash(ok) ==
    /\ up.pc = "sized"
    /\ LET u == [up EXCEPT !.log = Append(@, "hash")]
       IN  up' = IF ok
                   THEN [u EXCEPT !.hash = Sha256(ReadAll(up.content, 0)),
                                  !.pos = 0, !.pc = "hashed"]
                   ELSE UploadReturn(u, << >>, "hash")
    /\ UNCHANGED << pipeVars, sig, pureVars, appVars >>

\* the POST request with the Content-SHA256 header and ContentLength, and
\* o.client.Do(upReq); respOk: the client got a response
UpPost(respOk, status) ==
    /\ up.pc = "hashed"
    /\ LET u == [up EXCEPT !.log = Append(@, "post"),
                           !.req = [url |-> UploadURL(up.bin, up.name),
                                    hash |-> up.hash,
                                    len |-> up.size,
                                    body |-> ReadAll(up.content, up.pos)],
                           !.pos = Len(up.content)]
       IN  up' = IF respOk
                   THEN [u EXCEPT !.status = status, !.pc = "posted"]
                   ELSE UploadReturn(u, << >>, "post")
    /\ UNCHANGED << pipeVars, sig, pureVars, appVars >>

\* a check that takes every success status for an accepted upload
IsCreatedLax(status) == status \in {StatusOK, StatusCreated}

\* `upResp.StatusCode != http.StatusCreated` is the failure
IsCreated(status) == status = StatusCreated

\* the check of the upload's status
UpCheckCreated ==
    /\ up.pc = "posted"
    /\ LET u == [up EXCEPT !.log = Append(@, "check201")]
       IN  up' = IF IsCreated(up.status)
                   THEN [u EXCEPT !.pc = "created"]
                   ELSE UploadReturn(u, << >>, "status_upload")
    /\ UNCHANGED << pipeVars, sig, pureVars, appVars >>

\* the PUT request locking the bin, and o.client.Do(lockReq)
UpLock(respOk, status) ==
    /\ up.pc = "created"
    /\ LET u == [up EXCEPT !.log = Append(@, "put")]
       IN  up' = IF respOk
                   THEN [u EXCEPT !.lockStatus = status, !.pc = "lockDone"]
                   ELSE UploadReturn(u, << >>, "lock")
    /\ UNCHANGED << pipeVars, sig, pureVars, appVars >>

\* a lock whose answer is not looked at
IsLockedUnchecked(status) == TRUE

\* `lockResp.StatusCode != http.StatusOK` is the failure
IsLocked(status) == status = StatusOK

\* the check of the lock's status, url.Parse(uploadURL) and the return of
\* u.String(); the same string went through url.Parse in
\* http.NewRequestWithContext before the upload, so it parses here
UpCheckLocked ==
    /\ up.pc = "lockDone"
    /\ LET u == [up EXCEPT !.log = Append(@, "check200")]
       IN  up' = IF IsLocked(up.lockStatus)
                   THEN UploadReturn(u, UploadURL(up.bin, up.name), "nil")
                   ELSE UploadReturn(u, << >>, "status_lock")
    /\ UNCHANGED << pipeVars, sig, pureVars, appVars >>

\* one call of UploadToFileBin, from its first statement to its return
UploadInit ==
    /\ PipelineInit
    /\ capacity = 0
    /\ releaseGuard
    /\ up \in UploadCalled
    /\ sig = SignalIdle
    /\ PureIdle

UploadNext ==
    \/ \E ok \in BOOLEAN : UpGetFileSize(ok)
    \/ \E ok \in BOOLEAN : UpCalculateHash(ok)
    \/ \E respOk \in BOOLEAN :
          \E status \in (IF respOk THEN Statuses ELSE {0}) :
             UpPost(respOk, status)
    \/ UpCheckCreated
    \/ \E respOk \in BOOLEAN :
          \E status \in (IF respOk THEN Statuses ELSE {0}) :
             UpLock(respOk, status)
    \/ UpCheckLocked

UploadSpec == UploadInit /\ [][UploadNext]_vars

\* ------------------------------------------------------ Bot.setChatAction
\* the two chat actions the handler starts
ChatActions == {"downloading", "uploading"}

\* closing a channel as the stop: a close after an earlier one, by the
\* handler or by the loop's deferred call, panics
CloseDone(s) ==
    IF s.stops > 0 \/ s.loop = "exited"
      THEN [s EXCEPT !.panicked = TRUE]
      ELSE [s EXCEPT !.done = TRUE]

\* the context.CancelFunc of context.WithCancel: the first call cancels the
\* context, later calls do nothing
CancelFunc(s) == [s EXCEPT !.done = TRUE]

\* the handler calls the stop function, eagerly or from its deferred calls
SigStop ==
    /\ sig.loop # "idle"
    /\ sig.stops < MaxStops
    /\ sig' = [CancelFunc(sig) EXCEPT !.stops = @ + 1]
    /\ UNCHANGED << pipeVars, up, pureVars, appVars >>

\* the context handed to setChatAction is cancelled; the one derived from
\* it is cancelled after that
SigParentCancel ==
    /\ sig.loop # "idle"
    /\ ~sig.parentDone
    /\ sig' = [sig EXCEPT !.parentDone = TRUE]
    /\ UNCHANGED << pipeVars, up, pureVars, appVars >>

\* the cancellation of the handler's context reaches the context derived
\* in setChatAction, unless stop has cancelled that one already
SigCancelChild ==
    /\ sig.parentDone
    /\ ~sig.done
    /\ sig' = CancelFunc(sig)
    /\ UNCHANGED << pipeVars, up, pureVars, appVars >>

\* a return of the goroutine that cancels the handler's context as well
SigExitCancelsParent(s) ==
    [s EXCEPT !.done = TRUE, !.parentDone = TRUE, !.loop = "exited"]

\* the goroutine returns: the deferred ticker.Stop() and the deferred stop(),
\* which cancels the context derived in setChatAction and no other
SigExit(s) == [CancelFunc(s) EXCEPT !.loop = "exited"]

\* a loop that waits for the first tick before it notifies
LoopEntryWaitsFirst(s) == [s EXCEPT !.loop = "wait"]

\* past the first check the goroutine goes on to its first Notify; the
\* ticker is created after it
LoopEntry(s) == [s EXCEPT !.loop = "notify"]

\* the goroutine's first statement: `if ctx.Err() != nil { return }`
SigLoopStart ==
    /\ sig.loop = "start"
    /\ sig' = IF sig.done THEN SigExit(sig) ELSE LoopEntry(sig)
    /\ UNCHANGED << pipeVars, up, pureVars, appVars >>

\* b.client.Notify(user, action), the first one or one after a tick; with
\* an error the goroutine returns
SigNotify(ok) ==
    /\ sig.loop = "notify"
    /\ LET s == [sig EXCEPT !.sent = @ + 1]
       IN  sig' = IF ok THEN [s EXCEPT !.loop = "wait"]
                        ELSE SigExit([s EXCEPT !.failed = TRUE])
    /\ UNCHANGED << pipeVars, up, pureVars, appVars >>

\* the select takes `case <-ctx.Done()`
SigSelectDone ==
    /\ sig.loop = "wait"
    /\ sig.done
    /\ sig' = SigExit(sig)
    /\ UNCHANGED << pipeVars, up, pureVars, appVars >>

\* the select takes `case <-ticker.C`: an interval has passed
SigSelectTick ==
    /\ sig.loop = "wait"
    /\ sig.sent < MaxNotify
    /\ sig' = [sig EXCEPT !.loop = "ticked", !.ticks = @ + 1]
    /\ UNCHANGED << pipeVars, up, pureVars, appVars >>

\* after the tick: `if err := ctx.Err(); err != nil { return }`
SigTickCheck ==
    /\ sig.loop = "ticked"
    /\ sig' = IF sig.done THEN SigExit(sig)
                          ELSE [sig EXCEPT !.loop = "notify"]
    /\ UNCHANGED << pipeVars, up, pureVars, appVars >>

\* one call of setChatAction: the derived context and the started goroutine
SignalInit ==
    /\ PipelineInit
    /\ capacity = 0
    /\ releaseGuard
    /\ up = UploadIdle
    /\ sig \in { [SignalIdle EXCEPT !.loop = "start", !.action = a,
                                    !.done = d, !.parentDone = d] :
                   a \in ChatActions, d \in BOOLEAN }
    /\ PureIdle

SignalNext ==
    \/ SigStop
    \/ SigParentCancel
    \/ SigCancelChild
    \/ SigLoopStart
    \/ \E ok \in BOOLEAN : SigNotify(ok)
    \/ SigSelectDone
    \/ SigSelectTick
    \/ SigTickCheck

SignalSpec == SignalInit /\ [][SignalNext]_vars

\* a step of the goroutine other than the passing of an interval
SigLoopStep ==
    \/ SigLoopStart
    \/ \E ok \in BOOLEAN : SigNotify(ok)
    \/ SigSelectDone
    \/ SigTickCheck

\* setChatAction under a fair scheduler: the goroutine is scheduled when it
\* can run, a call of Notify returns and a cancellation of the handler's
\* context reaches the derived one. Nothing makes the handler stop the
\* action, its context be cancelled or an interval pass.
SignalFairSpec ==
    SignalSpec /\ WF_vars(SigLoopStep) /\ WF_vars(SigCancelChild)

\* ------------------------------------------------------ systemRunner.Run
\* a line feed
LF == "\n"

\* what the process may write to its stderr
StderrChars == {"a", "b", LF}

Stderrs == UNION { [1..n -> StderrChars] : n \in 0..MaxStderrLen }

\* what cmd.Run can return: nil, or the Error() text of what went wrong
CmdErrors == {"nil", "exit status 1", "signal: killed", "file not found"}

\* index of the first element of s equal to c, 0 when there is none
Index(s, c) ==
    IF \E i \in 1..Len(s) : s[i] = c
      THEN CHOOSE i \in 1..Len(s) : s[i] = c /\ \A j \in 1..(i - 1) : s[j] # c
      ELSE 0

\* a split that leaves out the empty pieces
RECURSIVE SplitSkipsEmpty(_, _)
SplitSkipsEmpty(s, sep) ==
    LET i == Index(s, sep)
        first == IF i = 0 THEN s ELSE SubSeq(s, 1, i - 1)
        kept == IF first = << >> THEN << >> ELSE << first >>
    IN  IF i = 0
          THEN kept
          ELSE kept \o SplitSkipsEmpty(SubSeq(s, i + 1, Len(s)), sep)

\* strings.Split(s, sep) for a one-character sep: the pieces between the
\* separators, the empty ones included; one piece when sep does not occur
RECURSIVE Split(_, _)
Split(s, sep) ==
    LET i == Index(s, sep)
    IN  IF i = 0
          THEN << s >>
          ELSE << SubSeq(s, 1, i - 1) >>
                  \o Split(SubSeq(s, i + 1, Len(s)), sep)

\* strings.Join(elems, sep)
RECURSIVE Join(_, _)
Join(elems, sep) ==
    IF elems = << >> THEN << >>
    ELSE IF Len(elems) = 1 THEN elems[1]
    ELSE elems[1] \o sep \o Join(Tail(elems), sep)

\* fmt.Errorf("%w: %s", err, text): the message of the wrapping error
Errorf(err, text) == << err >> \o << ":", " " >> \o text

\* Run has been called and the process started (or failed to start: then
\* it wrote nothing)
RunCalled ==
    { r \in [pc : {"called"}, stderr : Stderrs, exit : CmdErrors,
             buf : {<< >>}, cmdErr : {"nil"}, result : {FALSE},
             err : {<< >>}] :
        r.exit = "file not found" => r.stderr = << >> }

\* cmd.Run() returns: the stderr buffer holds what the process wrote
CmdRun ==
    /\ run.pc = "called"
    /\ run' = [run EXCEPT !.pc = "ran", !.buf = run.stderr,
                          !.cmdErr = run.exit]
    /\ UNCHANGED << pipeVars, up, sig, ex, cfg, appVars >>

\* the return statements of Run
RunReturn ==
    /\ run.pc = "ran"
    /\ run' = IF run.cmdErr # "nil"
                THEN IF Len(run.buf) > 0
                       THEN [run EXCEPT
                               !.pc = "returned",
                               !.result = FALSE,
                               !.err = Errorf(run.cmdErr,
                                          Join(Split(run.buf, LF),
                                               << ";", " " >>))]
                       ELSE [run EXCEPT !.pc = "returned",
                                        !.result = FALSE,
                                        !.err = << run.cmdErr >>]
                ELSE [run EXCEPT !.pc = "returned", !.result = TRUE,
                                 !.err = << >>]
    /\ UNCHANGED << pipeVars, up, sig, ex, cfg, appVars >>

RunnerInit ==
    /\ PipelineInit
    /\ capacity = 0
    /\ releaseGuard
    /\ up = UploadIdle
    /\ sig = SignalIdle
    /\ run \in RunCalled
    /\ ex = ExtractIdle
    /\ cfg = ConfigIdle
    /\ AppIdle

RunnerNext ==
    \/ CmdRun
    \/ RunReturn

RunnerSpec == RunnerInit /\ [][RunnerNext]_vars

\* ------------------------------------------------------------ ExtractLink
\* Texts are sequences of characters. The characters are ASCII letters,
\* digits and the punctuation of the links below; none of them needs
\* escaping in a URL, and none is "?", "#", "@" or "%".
TAB == "\t"

Space == {" ", TAB, LF}

LowerSeq ==
    << "a", "b", "c", "d", "e", "f", "g", "h", "i", "j", "k", "l", "m", "n",
       "o", "p", "q", "r", "s", "t", "u", "v", "w", "x", "y", "z" >>

UpperSeq ==
    << "A", "B", "C", "D", "E", "F", "G", "H", "I", "J", "K", "L", "M", "N",
       "O", "P", "Q", "R", "S", "T", "U", "V", "W", "X", "Y", "Z" >>

LowerLetters == { LowerSeq[i] : i \in 1..Len(LowerSeq) }

UpperLetters == { UpperSeq[i] : i \in 1..Len(UpperSeq) }

\* [a-z] under (?i), and the letters of a URL's scheme
Letters == LowerLetters \cup UpperLetters

DigitSeq == << "0", "1", "2", "3", "4", "5", "6", "7", "8", "9" >>

Digits == { DigitSeq[i] : i \in 1..Len(DigitSeq) }

\* the digits of a field of an IPv6 address
HexDigits ==
    Digits \cup {"a", "b", "c", "d", "e", "f", "A", "B", "C", "D", "E", "F"}

\* the value of a decimal digit
DigitVal(c) == (CHOOSE i \in 1..Len(DigitSeq) : DigitSeq[i] = c) - 1

\* strings.ToLower, for one character and for a text
ToLowerChar(c) ==
    IF c \in UpperLetters
      THEN LowerSeq[CHOOSE i \in 1..Len(UpperSeq) : UpperSeq[i] = c]
      ELSE c

ToLower(t) == [i \in 1..Len(t) |-> ToLowerChar(t[i])]

\* \w
WordChars == Letters \cup Digits \cup {"_"}

\* [\w.-]
DomainChars == WordChars \cup {".", "-"}

Alphabet == DomainChars \cup Space \cup {"/", ":", "[", "]", "(", ")"}

\* \S
NonSpace == Alphabet \ Space

\* [^\s)]
NotSpaceParen == NonSpace \ {")"}

\* the pieces texts are made of
\* a word: hi
Word == << "h", "i" >>

\* a markdown link: [d](https://m/p)
MarkdownLink ==
    << "[", "d", "]", "(", "h", "t", "t", "p", "s", ":", "/", "/", "m", "/",
       "p", ")" >>

\* a raw link: http://r/q
RawHttpLink == << "h", "t", "t", "p", ":", "/", "/", "r", "/", "q" >>

\* another raw link: https://s/y
RawHttpsLink == << "h", "t", "t", "p", "s", ":", "/", "/", "s", "/", "y" >>

\* a bare domain with a path: b.io/x
BareWithPath == << "b", ".", "i", "o", "/", "x" >>

\* a bare domain: b.io
BareDomain == << "b", ".", "i", "o" >>

\* a raw link in capitals: HTTP://R/Q
UpperLink == << "H", "T", "T", "P", ":", "/", "/", "R", "/", "Q" >>

\* a raw link to an IPv6 address: http://[::1]/p
IPv6Link ==
    << "h", "t", "t", "p", ":", "/", "/", "[", ":", ":", "1", "]", "/",
       "p" >>

\* a raw link to an IPv4-mapped IPv6 address: http://[::ffff:1.2.3.4]/p
MappedLink ==
    << "h", "t", "t", "p", ":", "/", "/", "[", ":", ":", "f", "f", "f", "f",
       ":", "1", ".", "2", ".", "3", ".", "4", "]", "/", "p" >>

\* a scheme and a host: https://666
SchemeHost == << "h", "t", "t", "p", "s", ":", "/", "/", "6", "6", "6" >>

Pieces ==
    {Word, << " " >>, << TAB >>, << LF >>, MarkdownLink, RawHttpLink,
     RawHttpsLink, BareWithPath, BareDomain, SchemeHost, UpperLink,
     IPv6Link, MappedLink}

\* the pieces one after the other
RECURSIVE Concat(_)
Concat(ps) == IF ps = << >> THEN << >> ELSE Head(ps) \o Concat(Tail(ps))

PieceLists == UNION { [1..n -> Pieces] : n \in 0..MaxPieces }

\* the character at position i, "" outside the text
At(t, i) == IF i \in 1..Len(t) THEN t[i] ELSE ""

\* the text holds lit at position i
HasAt(t, i, lit) ==
    /\ i >= 1
    /\ i + Len(lit) - 1 <= Len(t)
    /\ SubSeq(t, i, i + Len(lit) - 1) = lit

Least(S) == CHOOSE x \in S : \A y \in S : x <= y

Greatest(S) == CHOOSE x \in S : \A y \in S : x >= y

\* a greedy class*: the last position of the longest run of characters of
\* class that starts at i, i - 1 when the run is empty
RunEnd(t, i, class) ==
    LET stops == { j \in i..Len(t) : t[j] \notin class }
    IN  IF stops = {} THEN Len(t) ELSE Least(stops) - 1

\* strings.TrimSpace
TrimSpace(t) ==
    LET ink == { i \in 1..Len(t) : t[i] \notin Space }
    IN  IF ink = {} THEN << >> ELSE SubSeq(t, Least(ink), Greatest(ink))

\* the text holds lit, in either case, at position i
HasAtFold(t, i, lit) ==
    /\ i >= 1
    /\ i + Len(lit) - 1 <= Len(t)
    /\ \A k \in 1..Len(lit) : ToLowerChar(t[i + k - 1]) = lit[k]

\* https?:// under (?i) at position i: the number of characters matched,
\* 0 for none
SchemeLen(t, i) ==
    IF HasAtFold(t, i, << "h", "t", "t", "p", "s", ":", "/", "/" >>) THEN 8
    ELSE IF HasAtFold(t, i, << "h", "t", "t", "p", ":", "/", "/" >>) THEN 7
    ELSE 0

\* \b before position i
Boundary(t, i) == (At(t, i - 1) \in WordChars) # (At(t, i) \in WordChars)

\* no submatch
NoMatch == [found |-> FALSE, m1 |-> << >>, m2 |-> << >>, m3 |-> << >>,
            m4 |-> << >>]

\* \[.*?]\((https?://[^\s)]+)\) at position i: the lazy .*? stops at the
\* first "](" from which the rest matches; the greedy class stops before
\* the first character it excludes, which has to be ")"
Markdown(t, i) ==
    LET TargetEnd(j) == RunEnd(t, j + 2 + SchemeLen(t, j + 2), NotSpaceParen)
        closes == { j \in (i + 1)..Len(t) :
                      /\ HasAt(t, j, << "]", "(" >>)
                      /\ \A k \in (i + 1)..(j - 1) : t[k] # LF
                      /\ SchemeLen(t, j + 2) > 0
                      /\ TargetEnd(j) >= j + 2 + SchemeLen(t, j + 2)
                      /\ At(t, TargetEnd(j) + 1) = ")" }
    IN  IF At(t, i) = "[" /\ closes # {}
          THEN [NoMatch EXCEPT
                  !.found = TRUE,
                  !.m1 = SubSeq(t, Least(closes) + 2,
                                TargetEnd(Least(closes)))]
          ELSE NoMatch

\* \b(https?://\S+) at position i
RawUrl(t, i) ==
    LET from == i + SchemeLen(t, i)
    IN  IF /\ Boundary(t, i)
           /\ SchemeLen(t, i) > 0
           /\ RunEnd(t, from, NonSpace) >= from
          THEN [NoMatch EXCEPT
                  !.found = TRUE,
                  !.m2 = SubSeq(t, i, RunEnd(t, from, NonSpace))]
          ELSE NoMatch

\* \b([\w.-]+\.[a-z]{2,})(/\S*)? at position i: the greedy [\w.-]+ gives
\* back characters down to the last "." that two letters follow, then the
\* letters and the optional path are taken as far as they go
Domain(t, i) ==
    LET dots == { p \in (i + 1)..RunEnd(t, i, DomainChars) :
                    /\ t[p] = "."
                    /\ At(t, p + 1) \in Letters
                    /\ At(t, p + 2) \in Letters }
        q == RunEnd(t, Greatest(dots) + 1, Letters)
    IN  IF Boundary(t, i) /\ dots # {}
          THEN [NoMatch EXCEPT
                  !.found = TRUE,
                  !.m3 = SubSeq(t, i, q),
                  !.m4 = IF At(t, q + 1) = "/"
                           THEN SubSeq(t, q + 1, RunEnd(t, q + 2, NonSpace))
                           ELSE << >>]
          ELSE NoMatch

\* the alternation at position i: the first alternative that matches
MatchAt(t, i) ==
    LET md == Markdown(t, i)
        raw == RawUrl(t, i)
    IN  IF md.found THEN md
        ELSE IF raw.found THEN raw
        ELSE Domain(t, i)

\* the match that starts last
FindLastSubmatch(t) ==
    LET starts == { i \in 1..Len(t) : MatchAt(t, i).found }
    IN  IF starts = {} THEN NoMatch ELSE MatchAt(t, Greatest(starts))

\* the match at the first position from i on that has one
RECURSIVE MatchFrom(_, _)
MatchFrom(t, i) ==
    LET m == MatchAt(t, i)
    IN  IF i > Len(t) THEN NoMatch
        ELSE IF m.found THEN m
        ELSE MatchFrom(t, i + 1)

\* linkExtractRe.FindStringSubmatch(text): the match that starts first
FindStringSubmatch(t) == MatchFrom(t, 1)

\* a switch that leaves the bare domain without a scheme
RawLinkNoDefaultScheme(m) ==
    IF m.m1 # << >> THEN m.m1
    ELSE IF m.m2 # << >> THEN m.m2
    ELSE IF m.m3 # << >> THEN m.m3 \o m.m4
    ELSE << >>

\* the switch over the submatches
RawLink(m) ==
    IF m.m1 # << >> THEN m.m1
    ELSE IF m.m2 # << >> THEN m.m2
    ELSE IF m.m3 # << >>
      THEN << "h", "t", "t", "p", "s", ":", "/", "/" >> \o m.m3 \o m.m4
    ELSE << >>

\* a nil *url.URL
NilURL == [nil |-> TRUE, scheme |-> << >>, host |-> << >>, path |-> << >>]

\* the text from position i on
From(t, i) == SubSeq(t, i, Len(t))

\* the number of characters of class the text starts with
Run(t, class) == RunEnd(t, 1, class)

\* netip's parseIPv4Fields: four decimal fields between three dots, none
\* empty, none with a leading zero, none above 255
RECURSIVE DecimalValue(_)
DecimalValue(t) ==
    IF t = << >> THEN 0
    ELSE 10 * DecimalValue(SubSeq(t, 1, Len(t) - 1)) + DigitVal(t[Len(t)])

IPv4FieldOk(f) ==
    /\ f # << >>
    /\ Len(f) <= 3
    /\ \A k \in 1..Len(f) : f[k] \in Digits
    /\ Len(f) > 1 => f[1] # "0"
    /\ DecimalValue(f) <= 255

RECURSIVE IPv4Fields(_, _)
IPv4Fields(t, n) ==
    LET d == Index(t, ".")
    IN  IF n = 1 THEN IPv4FieldOk(t)
        ELSE /\ d > 0
             /\ IPv4FieldOk(SubSeq(t, 1, d - 1))
             /\ IPv4Fields(From(t, d + 1), n - 1)

\* the value of a hexadecimal digit and of a run of them
HexVal(c) ==
    IF c \in Digits THEN DigitVal(c)
    ELSE 9 + (CHOOSE i \in 1..6 : LowerSeq[i] = ToLowerChar(c))

RECURSIVE HexValue(_)
HexValue(t) ==
    IF t = << >> THEN 0
    ELSE 16 * HexValue(SubSeq(t, 1, Len(t) - 1)) + HexVal(t[Len(t)])

\* the two 16-bit groups of a dotted IPv4 address
IPv4Groups(t) ==
    LET a == Index(t, ".")
        u == From(t, a + 1)
        b == Index(u, ".")
        v == From(u, b + 1)
        c == Index(v, ".")
    IN  << 256 * DecimalValue(SubSeq(t, 1, a - 1))
             + DecimalValue(SubSeq(u, 1, b - 1)),
           256 * DecimalValue(SubSeq(v, 1, c - 1))
             + DecimalValue(From(v, c + 1)) >>

\* no address
NoAddr == [ok |-> FALSE, head |-> << >>, tail |-> << >>]

\* netip's parseIPv6 from a field on: i bytes are filled, ellipsis says
\* that a "::" was seen, acc holds the 16-bit groups read before and after
\* it. A field is one to four hex digits; it is followed by the end, by a
\* colon and more, or it starts the trailing IPv4 address, which takes the
\* place of the last two fields. Without "::" there are 16 bytes, with it
\* fewer.
RECURSIVE IPv6Fields(_, _, _, _)
IPv6Fields(t, i, ellipsis, acc) ==
    LET off == Run(t, HexDigits)
        rest == From(t, off + 1)
        more == From(rest, 2)
        Push(gs) == IF ellipsis THEN [acc EXCEPT !.tail = @ \o gs]
                                ELSE [acc EXCEPT !.head = @ \o gs]
        Done(a, n) == IF (IF n < 16 THEN ellipsis ELSE ~ellipsis)
                        THEN [a EXCEPT !.ok = TRUE] ELSE NoAddr
        field == Push(<< HexValue(SubSeq(t, 1, off)) >>)
    IN  IF i >= 16 THEN NoAddr
        ELSE IF off = 0 \/ off > 4 THEN NoAddr
        ELSE IF At(rest, 1) = "."
          THEN IF /\ ellipsis \/ i = 12
                  /\ i + 4 <= 16
                  /\ IPv4Fields(t, 4)
                 THEN Done(Push(IPv4Groups(t)), i + 4)
                 ELSE NoAddr
        ELSE IF rest = << >> THEN Done(field, i + 2)
        ELSE IF rest[1] # ":" \/ Len(rest) = 1 THEN NoAddr
        ELSE IF more[1] = ":"
          THEN IF ellipsis THEN NoAddr
               ELSE IF Len(more) = 1
                 THEN IF i + 2 < 16 THEN [field EXCEPT !.ok = TRUE]
                                    ELSE NoAddr
               ELSE IPv6Fields(From(more, 2), i + 2, TRUE, field)
        ELSE IPv6Fields(more, i + 2, ellipsis, field)

\* netip.ParseAddr on a text whose first "." or ":" is a ":": parseIPv6
ParseIPv6(t) ==
    IF HasAt(t, 1, << ":", ":" >>)
      THEN IF Len(t) = 2 THEN [NoAddr EXCEPT !.ok = TRUE]
           ELSE IPv6Fields(From(t, 3), 0, TRUE, NoAddr)
      ELSE IPv6Fields(t, 0, FALSE, NoAddr)

\* netip.ParseAddr gives an IPv6 address: the first of "." and ":" in the
\* text is a ":" and parseIPv6 takes the text
IsIPv6(t) ==
    LET c == Index(t, ":")
        d == Index(t, ".")
    IN  /\ c > 0
        /\ d = 0 \/ c < d
        /\ ParseIPv6(t).ok

\* the eight 16-bit groups of the address: the "::" stands for the groups
\* that are missing
Groups(t) ==
    LET a == ParseIPv6(t)
    IN  a.head \o [k \in 1..(8 - Len(a.head) - Len(a.tail)) |-> 0] \o a.tail

\* Addr.Is4In6: an IPv4-mapped IPv6 address, ::ffff:a.b.c.d in any spelling
Is4In6(t) ==
    /\ IsIPv6(t)
    /\ \A k \in 1..5 : Groups(t)[k] = 0
    /\ Groups(t)[6] = 65535

\* validOptionalPort: nothing, or a colon and digits
ValidOptionalPort(t) ==
    \/ t = << >>
    \/ /\ t[1] = ":"
       /\ \A k \in 2..Len(t) : t[k] \in Digits

\* the net/url a build can have, by what its parseHost does with square
\* brackets. Both Dockerfiles name a minor release of Go only, so the patch
\* release is the build's:
\*   "unchecked"  up to Go 1.24.7 and 1.25.1: a host that starts with "["
\*                ends at its last "]", and anything may stand between;
\*   "strict"     Go 1.24.8, 1.24.9, 1.25.2, 1.25.3: a "[" anywhere in the
\*                host opens the literal, which must be an IPv6 address
\*                and not an IPv4-mapped one;
\*   "mapped"     Go 1.24.10, 1.25.4 and later: as before, and IPv4-mapped
\*                addresses are taken.
NetURLReleases == {"unchecked", "strict", "mapped"}

\* parseHost: its error and the host it returns. With brackets only a port
\* may follow the last "]"; for other hosts what follows the last ":" is
\* the port. The checking releases return the literal from the last "[" on.
ParseHost(host, release) ==
    LET opens == { k \in 1..Len(host) : host[k] = "[" }
        closes == { k \in 1..Len(host) : host[k] = "]" }
        colons == { k \in 1..Len(host) : host[k] = ":" }
        literal == IF release = "unchecked" THEN At(host, 1) = "["
                                            ELSE opens # {}
        open == IF release = "unchecked" THEN 1 ELSE Greatest(opens)
        close == Greatest(closes)
        addr == SubSeq(host, open + 1, close - 1)
        err == IF literal
                 THEN \/ closes = {}
                      \/ ~ValidOptionalPort(From(host, close + 1))
                      \/ /\ release # "unchecked"
                         /\ \/ ~IsIPv6(addr)
                            \/ release = "strict" /\ Is4In6(addr)
                 ELSE /\ colons # {}
                      /\ ~ValidOptionalPort(From(host, Greatest(colons)))
    IN  [err |-> err,
         host |-> IF err \/ ~literal THEN host
                  ELSE SubSeq(host, open, Len(host))]

\* url.Parse on texts over Alphabet without white space: the scheme is
\* what precedes the first ":" when that is a letter followed by letters,
\* digits, "+", "-" and ".", and it is lower-cased; after "//" (without a
\* scheme: "//" that is not "///") the host runs to the next "/" and the
\* path is the rest
ParseURL(raw, release) ==
    LET c == Index(raw, ":")
        hasScheme ==
            /\ c > 1
            /\ raw[1] \in Letters
            /\ \A k \in 2..(c - 1) :
                  raw[k] \in Letters \cup Digits \cup {"+", "-", "."}
        rest == IF hasScheme THEN SubSeq(raw, c + 1, Len(raw)) ELSE raw
        hasAuthority ==
            /\ HasAt(rest, 1, << "/", "/" >>)
            /\ hasScheme \/ ~HasAt(rest, 1, << "/", "/", "/" >>)
        e == RunEnd(rest, 3, Alphabet \ {"/"})
        authority == IF hasAuthority THEN SubSeq(rest, 3, e) ELSE << >>
        parsed == ParseHost(authority, release)
        path == IF hasAuthority THEN SubSeq(rest, e + 1, Len(rest))
                ELSE IF At(rest, 1) = "/" \/ ~hasScheme THEN rest
                ELSE << >>
        missingScheme == c = 1
        colonInFirstSegment ==
            /\ ~hasScheme
            /\ At(rest, 1) # "/"
            /\ c > 0
            /\ \A k \in 1..(c - 1) : raw[k] # "/"
    IN  [err |-> \/ missingScheme
                 \/ colonInFirstSegment
                 \/ hasAuthority /\ parsed.err,
         url |-> [nil |-> FALSE,
                  scheme |-> IF hasScheme THEN ToLower(SubSeq(raw, 1, c - 1))
                             ELSE << >>,
                  host |-> IF hasAuthority THEN parsed.host ELSE << >>,
                  path |-> path]]

\* a validation that asks for no path
ValidURLWithoutPath(p) ==
    ~(p.err \/ p.url.scheme = << >> \/ p.url.host = << >>)

\* the negation of `err != nil || u.Scheme == "" || u.Host == "" ||
\* u.Path == ""`
ValidURL(p) ==
    ~(p.err \/ p.url.scheme = << >> \/ p.url.host = << >>
        \/ p.url.path = << >>)

\* an ExtractLink that returns neither a URL nor an error when it finds
\* nothing
ExtractLinkLenient(text, release) ==
    LET m == FindStringSubmatch(text)
        p == ParseURL(RawLink(m), release)
    IN  IF TrimSpace(text) = << >> \/ ~m.found
          THEN [url |-> NilURL, err |-> "nil"]
        ELSE IF ~ValidURL(p)
          THEN [url |-> NilURL, err |-> "invalid URL extracted"]
        ELSE [url |-> p.url, err |-> "nil"]

\* ExtractLink: what it returns, with the net/url of the build
ExtractLink(text, release) ==
    LET m == FindStringSubmatch(text)
        p == ParseURL(RawLink(m), release)
    IN  IF TrimSpace(text) = << >>
          THEN [url |-> NilURL, err |-> "empty text provided"]
        ELSE IF ~m.found
          THEN [url |-> NilURL, err |-> "no link found"]
        ELSE IF ~ValidURL(p)
          THEN [url |-> NilURL, err |-> "invalid URL extracted"]
        ELSE [url |-> p.url, err |-> "nil"]

\* ExtractLink has been called with a text made of pieces
ExtractCalled ==
    { [pc |-> "called", pieces |-> ps, text |-> Concat(ps),
       url |-> NilURL, err |-> "none", release |-> "none"] :
        ps \in PieceLists }

\* the call's record once ExtractLink has returned ret
Returned(call, ret, release) ==
    [call EXCEPT !.pc = "returned", !.url = ret.url, !.err = ret.err,
                 !.release = release]

\* the call returns, in a build with the given release of net/url
ExtractReturn(release) ==
    /\ ex.pc = "called"
    /\ ex' = Returned(ex, ExtractLink(ex.text, release), release)
    /\ UNCHANGED << pipeVars, up, sig, run, cfg, appVars >>

ExtractInit ==
    /\ PipelineInit
    /\ capacity = 0
    /\ releaseGuard
    /\ up = UploadIdle
    /\ sig = SignalIdle
    /\ run = RunIdle
    /\ ex \in ExtractCalled
    /\ cfg = ConfigIdle
    /\ AppIdle

ExtractNext == \E release \in NetURLReleases : ExtractReturn(release)

ExtractSpec == ExtractInit /\ [][ExtractNext]_vars

\* ------------------------------------------- Download's argument list
\* values of the cookies file option; "" is no file
CookiePaths == {"", "cookies.txt"}

\* values of the JS runtimes option; "" is none
Runtimes == {"", "node"}

\* the options a caller can pass: WithCookiesFile(path), WithJSRuntimes(v)
Options ==
    [kind : {"cookies"}, val : CookiePaths]
       \cup [kind : {"js"}, val : Runtimes]

OptionLists == UNION { [1..n -> Options] : n \in 0..MaxOpts }

\* the URLs handed to Download
SourceURLs == {"https://a/1", "https://b/2"}

\* the directories os.MkdirTemp makes
ScratchDirs == {"/tmp/yt-dlp-1", "/tmp/yt-dlp-2"}

\* options{}.Apply(opts...): the options applied in their order to the
\* given field, the last one of a kind wins
RECURSIVE Apply(_, _, _)
Apply(field, kind, opts) ==
    IF opts = << >> THEN field
    ELSE Apply(IF Head(opts).kind = kind THEN Head(opts).val ELSE field,
               kind, Tail(opts))

\* the flags every call passes; tmpDir follows --paths
FixedArgs(tmpDir) ==
    << "--ignore-config", "--color", "never",
       "--min-filesize", "50k", "--max-filesize", "2G", "--no-playlist",
       "--concurrent-fragments", "1", "--retries", "5",
       "--fragment-retries", "5", "--abort-on-unavailable-fragments",
       "--paths", tmpDir,
       "--output", "result.%(ext)s",
       "--restrict-filenames", "--trim-filenames", "128",
       "--no-overwrites", "--no-continue", "--no-mtime",
       "--write-info-json", "--no-write-comments",
       "--cache-dir", "os.TempDir()",
       "--no-progress",
       "--format",
       "bv*[ext=mp4][filesize<2G]+ba[ext=m4a][filesize<2G]/bv*[ext=mp4]+ba[ext=m4a]/best[filesize<2G]/best",
       "--no-post-overwrites", "--no-embed-info-json" >>

\* an argument list that names the cookies file whether there is one or not
ArgsWithCookiesAlways(tmpDir, cookiesFile, jsRuntimes) ==
    FixedArgs(tmpDir)
       \o << "--cookies", cookiesFile >>
       \o (IF jsRuntimes # "" THEN << "--js-runtimes", jsRuntimes >>
           ELSE << >>)

\* args as Download builds it: the literal and the two conditional appends
Args(tmpDir, cookiesFile, jsRuntimes) ==
    FixedArgs(tmpDir)
       \o (IF cookiesFile # "" THEN << "--cookies", cookiesFile >>
           ELSE << >>)
       \o (IF jsRuntimes # "" THEN << "--js-runtimes", jsRuntimes >>
           ELSE << >>)

\* Download has been called and os.MkdirTemp has made the directory
InvokeCalled ==
    { [InvokeIdle EXCEPT !.pc = "called", !.opts = o, !.url = u,
                         !.tmpDir = d] :
        o \in OptionLists, u \in SourceURLs, d \in ScratchDirs }

\* o = options{}.Apply(opts...)
InvApply ==
    /\ inv.pc = "called"
    /\ inv' = [inv EXCEPT !.pc = "applied",
                          !.cookiesFile = Apply("", "cookies", inv.opts),
                          !.jsRuntimes = Apply("", "js", inv.opts)]
    /\ UNCHANGED << pipeVars, up, sig, pureVars, st, pid >>

\* o.runner.Run(ctx, o.exePath, append(args, in)...)
InvRun ==
    /\ inv.pc = "applied"
    /\ inv' = [inv EXCEPT
                 !.pc = "run",
                 !.args = Append(Args(inv.tmpDir, inv.cookiesFile,
                                      inv.jsRuntimes), inv.url)]
    /\ UNCHANGED << pipeVars, up, sig, pureVars, st, pid >>

InvokeInit ==
    /\ PipelineInit
    /\ capacity = 0
    /\ releaseGuard
    /\ up = UploadIdle
    /\ sig = SignalIdle
    /\ run = RunIdle
    /\ ex = ExtractIdle
    /\ cfg = ConfigIdle
    /\ inv \in InvokeCalled
    /\ st = StartIdle
    /\ pid = PidIdle

InvokeNext ==
    \/ InvApply
    \/ InvRun

InvokeSpec == InvokeInit /\ [][InvokeNext]_vars

\* --------------------------------------------------------------- Bot.Start
\* The Telegram client is a library: client.Start() is a call that polls,
\* hands updates to handlers and returns at a time of its own, at the
\* latest once client.Stop() has been called; client.Stop() is a call that
\* returns.

\* the context of Start is cancelled
StCancel ==
    /\ st.pc # "idle"
    /\ ~st.ctxDone
    /\ st' = [st EXCEPT !.ctxDone = TRUE]
    /\ UNCHANGED << pipeVars, up, sig, pureVars, inv, pid >>

\* b.client.Start() is called
StClientStart ==
    /\ st.pc = "start"
    /\ st' = [st EXCEPT !.pc = "polling"]
    /\ UNCHANGED << pipeVars, up, sig, pureVars, inv, pid >>

\* the polling loop takes an update and starts its handler
StUpdate ==
    /\ st.pc = "polling"
    /\ ~st.stopCalled
    /\ st.updates < MaxUpdates
    /\ st' = [st EXCEPT !.updates = @ + 1]
    /\ UNCHANGED << pipeVars, up, sig, pureVars, inv, pid >>

\* a handler started by the polling loop returns
StHandled ==
    /\ st.handled < st.updates
    /\ st' = [st EXCEPT !.handled = @ + 1]
    /\ UNCHANGED << pipeVars, up, sig, pureVars, inv, pid >>

\* a Start that returns with b.client.Start(), without waiting for stopped
StClientReturnsNoWait ==
    /\ st.pc = "polling"
    /\ st' = [st EXCEPT !.pc = "returned"]
    /\ UNCHANGED << pipeVars, up, sig, pureVars, inv, pid >>

\* b.client.Start() returns; Start goes on to `<-stopped`
StClientReturns ==
    /\ st.pc = "polling"
    /\ st' = [st EXCEPT !.pc = "waiting"]
    /\ UNCHANGED << pipeVars, up, sig, pureVars, inv, pid >>

\* b.client.Start() returns because the client was stopped
StClientStopped ==
    /\ st.stopCalled
    /\ StClientReturns

\* the goroutine's `<-ctx.Done()` proceeds and it calls b.client.Stop()
StStopperWakes ==
    /\ st.stopper = "waiting"
    /\ st.ctxDone
    /\ st' = [st EXCEPT !.stopper = "stopping", !.stopCalled = TRUE]
    /\ UNCHANGED << pipeVars, up, sig, pureVars, inv, pid >>

\* b.client.Stop() returns and the deferred close(stopped) runs
StStopReturns ==
    /\ st.stopper = "stopping"
    /\ st' = [st EXCEPT !.stopper = "exited", !.stopped = TRUE]
    /\ UNCHANGED << pipeVars, up, sig, pureVars, inv, pid >>

\* `<-stopped` proceeds and Start returns
StReturn ==
    /\ st.pc = "waiting"
    /\ st.stopped
    /\ st' = [st EXCEPT !.pc = "returned"]
    /\ UNCHANGED << pipeVars, up, sig, pureVars, inv, pid >>

\* Start has made the channel and started the goroutine
StartInit ==
    /\ PipelineInit
    /\ capacity = 0
    /\ releaseGuard
    /\ up = UploadIdle
    /\ sig = SignalIdle
    /\ run = RunIdle
    /\ ex = ExtractIdle
    /\ cfg = ConfigIdle
    /\ inv = InvokeIdle
    /\ st \in { [StartIdle EXCEPT !.pc = "start", !.stopper = "waiting",
                                  !.ctxDone = d] : d \in BOOLEAN }
    /\ pid = PidIdle

StartNext ==
    \/ StCancel
    \/ StClientStart
    \/ StUpdate
    \/ StHandled
    \/ StClientReturns
    \/ StStopperWakes
    \/ StStopReturns
    \/ StReturn

StartSpec == StartInit /\ [][StartNext]_vars

\* what Start's two goroutines do themselves, and the returns of the two
\* calls into the client once it is being stopped
StartStep ==
    \/ StClientStart
    \/ StClientStopped
    \/ StStopperWakes
    \/ StStopReturns
    \/ StReturn

\* Start under a fair scheduler and a client that keeps its word. Nothing
\* makes the context be cancelled, an update arrive or a handler return.
StartFairSpec == StartSpec /\ WF_vars(StartStep)

\* -------------------------------------------------- the command's action

\* What can be at the pid file's path: nothing, a file another instance
\* wrote its process id to, a file with something else in it, a path that
\* cannot be a file (a component of it is not a directory), and the file
\* this process wrote.
DiskStates == {"absent", "foreign", "garbage", "invalid"}

\* os.Stat of the path returns no error
StatOk(disk) == disk \in {"foreign", "garbage", "own"}

\* the error of os.Stat says that the file does not exist
IsNotExist(disk) == disk = "absent"

\* The pid-file flag's validator. It looks at the option, not at the value it
\* is given, and the option is set only by the action.
PidFileValidator(optPidFile, disk) ==
    IF ~optPidFile
    THEN "none"
    ELSE IF ~StatOk(disk) /\ IsNotExist(disk)
         THEN "none"
         ELSE "validator"

\* the flags are validated before the action runs
PidValidate ==
    /\ pid.pc = "start"
    /\ LET e == PidFileValidator(pid.optPidFile, pid.disk)
       IN pid' = [pid EXCEPT !.err = e,
                             !.pc = IF e = "none" THEN "flags"
                                    ELSE "returned"]
    /\ UNCHANGED << pipeVars, up, sig, pureVars, inv, st >>

\* setIfFlagIsSet for the pid file and the healthcheck
PidSetFlags ==
    /\ pid.pc = "flags"
    /\ pid' = [pid EXCEPT !.optPidFile = pid.flagPath,
                          !.optHealth = pid.flagHealth,
                          !.pc = "mode"]
    /\ UNCHANGED << pipeVars, up, sig, pureVars, inv, st >>

\* what the healthcheck answers: the file is read, its content parsed and
\* the process signalled with 0
HealthcheckErr(optPidFile, disk, alive) ==
    IF ~optPidFile THEN "no_pid_file"
    ELSE IF ~StatOk(disk) THEN "read"
    ELSE IF disk = "garbage" THEN "atoi"
    ELSE IF ~alive THEN "not_running"
    ELSE "none"

PidHealthcheck ==
    /\ pid.pc = "mode"
    /\ pid.optHealth
    /\ pid' = [pid EXCEPT
                 !.err = HealthcheckErr(pid.optPidFile, pid.disk, pid.alive),
                 !.reads = IF pid.optPidFile THEN @ + 1 ELSE @,
                 !.pc = "returned"]
    /\ UNCHANGED << pipeVars, up, sig, pureVars, inv, st >>

\* as PidCheck, but an existing file does not stop the action
PidCheckOverwrites ==
    /\ pid.pc = "mode"
    /\ ~pid.optHealth
    /\ pid' = [pid EXCEPT !.pc = IF pid.optPidFile THEN "write"
                                 ELSE "cookies"]
    /\ UNCHANGED << pipeVars, up, sig, pureVars, inv, st >>

\* not a healthcheck: the file must not exist yet
PidCheck ==
    /\ pid.pc = "mode"
    /\ ~pid.optHealth
    /\ pid' = IF ~pid.optPidFile
              THEN [pid EXCEPT !.pc = "cookies"]
              ELSE IF StatOk(pid.disk)
                   THEN [pid EXCEPT !.err = "exists", !.pc = "returned"]
                   ELSE [pid EXCEPT !.pc = "write"]
    /\ UNCHANGED << pipeVars, up, sig, pureVars, inv, st >>

\* os.WriteFile of the process id, and the deferred os.Remove after it
PidWrite ==
    /\ pid.pc = "write"
    /\ \E ok \in BOOLEAN :
          /\ pid.disk = "invalid" => ~ok
          /\ pid' = IF ok
                    THEN [pid EXCEPT !.disk = "own", !.writes = @ + 1,
                                     !.removeDeferred = TRUE,
                                     !.pc = "cookies"]
                    ELSE [pid EXCEPT !.err = "write", !.pc = "returned"]
    /\ UNCHANGED << pipeVars, up, sig, pureVars, inv, st >>

\* the cookies file, if there is one, is copied
PidCookies ==
    /\ pid.pc = "cookies"
    /\ \E ok \in BOOLEAN :
          pid' = IF ok
                 THEN [pid EXCEPT !.pc = "run"]
                 ELSE [pid EXCEPT !.err = "cookies", !.pc = "defer"]
    /\ UNCHANGED << pipeVars, up, sig, pureVars, inv, st >>

\* App.run: bot.NewBot and the call of Start
PidNewBot ==
    /\ pid.pc = "run"
    /\ \E ok \in BOOLEAN :
          pid' = IF ok
                 THEN [pid EXCEPT !.bot = "started", !.pc = "bot"]
                 ELSE [pid EXCEPT !.err = "bot", !.pc = "defer"]
    /\ UNCHANGED << pipeVars, up, sig, pureVars, inv, st >>

\* Start returns
PidBotStops ==
    /\ pid.pc = "bot"
    /\ pid' = [pid EXCEPT !.bot = "stopped", !.pc = "defer"]
    /\ UNCHANGED << pipeVars, up, sig, pureVars, inv, st >>

\* the action returns and its deferred call runs
PidDeferred ==
    /\ pid.pc = "defer"
    /\ pid' = IF pid.removeDeferred
              THEN [pid EXCEPT !.disk = "absent", !.removes = @ + 1,
                               !.pc = "returned"]
              ELSE [pid EXCEPT !.pc = "returned"]
    /\ UNCHANGED << pipeVars, up, sig, pureVars, inv, st >>

PidCalled ==
    { [PidIdle EXCEPT !.pc = "start", !.flagPath = p, !.flagHealth = hc,
                      !.found = d, !.disk = d, !.alive = a] :
        p \in BOOLEAN, hc \in BOOLEAN, d \in DiskStates, a \in BOOLEAN }

PidInit ==
    /\ PipelineInit
    /\ capacity = 0
    /\ releaseGuard
    /\ up = UploadIdle
    /\ sig = SignalIdle
    /\ run = RunIdle
    /\ ex = ExtractIdle
    /\ cfg = ConfigIdle
    /\ inv = InvokeIdle
    /\ st = StartIdle
    /\ pid \in PidCalled

PidNext ==
    \/ PidValidate
    \/ PidSetFlags
    \/ PidHealthcheck
    \/ PidCheck
    \/ PidWrite
    \/ PidCookies
    \/ PidNewBot
    \/ PidBotStops
    \/ PidDeferred

PidSpec == PidInit /\ [][PidNext]_vars

\* --------------------------------------------------------- specification
Next ==
    \/ Cancel
    \/ \E h \in Handlers :
          \/ CancelChild(h)
          \/ \E linkOk \in BOOLEAN : Receive(h, linkOk)
          \/ AcquireSelect(h)
          \/ AcquireCheck(h)
          \/ AcquireWoken(h)
          \/ \E mkOk \in BOOLEAN : DownloadBegin(h, mkOk)
          \/ \E exitOk \in BOOLEAN, files \in SUBSET ToolFiles :
                RunnerExit(h, exitOk, files)
          \/ \E infoOk \in (IF ~runErr[h] /\ ResultFile \in toolFiles[h]
                                THEN BOOLEAN ELSE {FALSE}) :
                \* a step that failed is the last one taken, and the
                \* steps after a failed run or a missing result file are
                \* not taken at all
                \E createOk \in (IF infoOk THEN BOOLEAN ELSE {FALSE}) :
                   \E renameOk \in (IF createOk THEN BOOLEAN ELSE {FALSE}) :
                      DownloadFinish(h, infoOk, createOk, renameOk)
          \/ \E statOk \in (IF dlRes[h] = "ok" THEN BOOLEAN ELSE {FALSE}) :
                \* after a failed Download the file is not looked at
                \E sz \in (IF statOk THEN FileSizes ELSE {0}) :
                   \E openOk \in (IF statOk THEN BOOLEAN ELSE {FALSE}) :
                      AfterDownload(h, statOk, sz, openOk)
          \/ \E ok \in BOOLEAN : Deliver(h, ok)
          \/ Cleanup(h)
          \/ Release(h)

Spec == Init /\ [][Next]_vars

\* a step of the goroutine serving message h, once the message is there:
\* everything the handler does itself
HandlerStep(h) ==
    \/ AcquireSelect(h)
    \/ AcquireCheck(h)
    \/ AcquireWoken(h)
    \/ \E mkOk \in BOOLEAN : DownloadBegin(h, mkOk)
    \/ \E infoOk, createOk, renameOk \in BOOLEAN :
          DownloadFinish(h, infoOk, createOk, renameOk)
    \/ \E statOk, openOk \in BOOLEAN, sz \in FileSizes \cup {0} :
          AfterDownload(h, statOk, sz, openOk)
    \/ \E ok \in BOOLEAN : Deliver(h, ok)
    \/ Cleanup(h)
    \/ Release(h)

\* exec.CommandContext: once ctx is done the process is killed and cmd.Run
\* returns an error
ProcessKilled(h) ==
    /\ CtxDone(h)
    /\ \E files \in SUBSET ToolFiles : RunnerExit(h, FALSE, files)

\* the pipeline under a fair scheduler: a goroutine that can take a step
\* eventually takes one, a cancellation of pCtx reaches every child, and
\* a killed process exits. Nothing makes a message arrive, pCtx be
\* cancelled or a running tool finish.
FairSpec ==
    /\ Spec
    /\ \A h \in Handlers :
          /\ WF_vars(HandlerStep(h))
          /\ WF_vars(CancelChild(h))
          /\ WF_vars(ProcessKilled(h))

\* ------------------------------------------- the limiter under contention
\* the Telegram client calls the registered handler again, for the next
\* message, once the call before has returned
Restart(h) ==
    /\ pc[h] = "returned"
    /\ ~slot[h]
    /\ pc' = [pc EXCEPT ![h] = "idle"]
    /\ acqErr' = [acqErr EXCEPT ![h] = "none"]
    /\ calledDone' = [calledDone EXCEPT ![h] = FALSE]
    /\ scratch' = [scratch EXCEPT ![h] = "none"]
    /\ toolFiles' = [toolFiles EXCEPT ![h] = {}]
    /\ runErr' = [runErr EXCEPT ![h] = FALSE]
    /\ dlRes' = [dlRes EXCEPT ![h] = "none"]
    /\ dlVal' = [dlVal EXCEPT ![h] = FALSE]
    /\ dlWhy' = [dlWhy EXCEPT ![h] = "none"]
    /\ file' = [file EXCEPT ![h] = "none"]
    /\ fsize' = [fsize EXCEPT ![h] = 0]
    /\ marker' = [marker EXCEPT ![h] = "none"]
    /\ signals' = [signals EXCEPT ![h] = {}]
    /\ reply' = [reply EXCEPT ![h] = "none"]
    /\ delivered' = [delivered EXCEPT ![h] = "none"]
    /\ outcome' = [outcome EXCEPT ![h] = "none"]
    /\ defers' = [defers EXCEPT ![h] = << >>]
    /\ releases' = [releases EXCEPT ![h] = 0]
    /\ UNCHANGED << callVars, capacity, releaseGuard, limVars, ctxVars >>

\* a step of a handler whose Download fails at once (os.MkdirTemp): the
\* shortest way from Acquire to Release, every step of it the handler's own
LimiterStep(h) ==
    \/ AcquireSelect(h)
    \/ AcquireCheck(h)
    \/ DownloadBegin(h, FALSE)
    \/ AfterDownload(h, FALSE, 0, FALSE)
    \/ Cleanup(h)
    \/ Release(h)

LimiterNext ==
    \E h \in Handlers :
       \/ Receive(h, TRUE)
       \/ LimiterStep(h)
       \/ Restart(h)

\* handlers competing for the limiter without end: pCtx is never cancelled,
\* messages keep coming, every holder releases, and a goroutine that can
\* take a step eventually takes one. Nothing makes a message arrive.
LimiterSpec ==
    /\ Init
    /\ [][LimiterNext]_vars
    /\ \A h \in Handlers : WF_vars(LimiterStep(h))

\* ------------------------------------------------- the limiter's capacity
\* the smaller and the larger of two numbers
Min2(a, b) == IF a <= b THEN a ELSE b

Max2(a, b) == IF a >= b THEN a ELSE b

\* an option that only caps its argument
ClampUpperOnly(n) == Min2(100, n)

\* WithMaxConcurrentDownloads(n): max(1, min(100, n))
Clamp(n) == Max2(1, Min2(100, n))

\* the Validator of the max-concurrent-downloads flag: v is turned down
FlagRejected(v) == v < 1 \/ v > 100

\* the ways a bot gets built: by the command line application, whose flag
\* is given (argument or environment) or not, by a call of NewBot with
\* WithMaxConcurrentDownloads(n) among its options, or by a call of NewBot
\* without that option, which NewBot's option list allows
ConfigStarts ==
    { [ConfigIdle EXCEPT !.pc = "flags", !.via = "cli", !.set = TRUE,
                         !.flag = v,
                         !.opt = DefaultMaxConcurrentDownloads] :
        v \in 0..MaxFlagValue }
    \cup { [ConfigIdle EXCEPT !.pc = "flags", !.via = "cli",
                              !.opt = DefaultMaxConcurrentDownloads] }
    \cup { [ConfigIdle EXCEPT !.pc = "run", !.via = "option", !.opt = n] :
             n \in 0..MaxFlagValue }
    \cup { [ConfigIdle EXCEPT !.pc = "run", !.via = "bare"] }

\* the flag is parsed: a value that is given goes through the Validator,
\* and the command fails on its error
FlagValidate ==
    /\ cfg.pc = "flags"
    /\ cfg' = [cfg EXCEPT !.pc = IF cfg.set /\ FlagRejected(cfg.flag)
                                   THEN "rejected" ELSE "action"]
    /\ UNCHANGED << pipeVars, up, sig, run, ex, appVars >>

\* the command's action: setIfFlagIsSet(&app.opt.MaxConcurrentDownloads,
\* maxConcurrentDownloadsFlag)
SetIfFlagIsSet ==
    /\ cfg.pc = "action"
    /\ cfg' = [cfg EXCEPT !.pc = "run",
                          !.opt = IF cfg.set THEN cfg.flag ELSE cfg.opt]
    /\ UNCHANGED << pipeVars, up, sig, run, ex, appVars >>

\* bot.maxConcurrentDownloads after the options were applied: the zero
\* value when WithMaxConcurrentDownloads is not among them (via "bare").
\* App.run always passes it.
MaxConcurrentDownloads(c) == IF c.via = "bare" THEN 0 ELSE Clamp(c.opt)

\* NewBot: the options are applied and the client is made; when tele.NewBot
\* fails NewBot returns its error and there is no limiter and no handler,
\* otherwise it makes the limiter, `make(Limiter,
\* bot.maxConcurrentDownloads)`, and registers the handlers
NewBot(clientOk) ==
    /\ cfg.pc = "run"
    /\ IF clientOk
         THEN /\ cfg' = [cfg EXCEPT !.pc = "running",
                                    !.max = MaxConcurrentDownloads(cfg)]
              /\ capacity' = MaxConcurrentDownloads(cfg)
         ELSE /\ cfg' = [cfg EXCEPT !.pc = "failed"]
              /\ UNCHANGED capacity
    /\ UNCHANGED << releaseGuard, limVars, ctxVars, pc, acqErr, calledDone,
                    dlVars, fsize, chatVars, outcome, defers, releases, up,
                    sig, run, ex, appVars >>

ConfigInit ==
    /\ PipelineInit
    /\ capacity = 0
    /\ up = UploadIdle
    /\ sig = SignalIdle
    /\ run = RunIdle
    /\ ex = ExtractIdle
    /\ cfg \in ConfigStarts
    /\ AppIdle

\* the start of the bot, then its handlers at work on one message each
ConfigNext ==
    \/ FlagValidate
    \/ SetIfFlagIsSet
    \/ \E clientOk \in BOOLEAN : NewBot(clientOk)
    \/ /\ cfg.pc = "running"
       /\ \E h \in Handlers :
             \/ Receive(h, TRUE)
             \/ LimiterStep(h)

ConfigSpec == ConfigInit /\ [][ConfigNext]_vars

\* the starts with WithMaxConcurrentDownloads among NewBot's options, as
\* App.run, the one caller of NewBot in the program, builds its bot; the
\* package is internal, so no other program calls NewBot
OptionStarts == { c \in ConfigStarts : c.via # "bare" }

OptionInit == ConfigInit /\ cfg \in OptionStarts

\* the bot configured through the option, then its handlers at work
OptionSpec == OptionInit /\ [][ConfigNext]_vars

\* every variable stays within its domain
TypeOK ==
    /\ capacity \in 0..MaxCap
    /\ releaseGuard \in BOOLEAN
    /\ lim \in 0..capacity
    /\ lim = Cardinality({h \in Handlers : slot[h]})
    /\ ctxDone \in BOOLEAN
    /\ children \subseteq { h \in Handlers : pc[h] \notin {"idle", "returned"} }
    /\ ~ctxDone => children = { h \in Handlers :
                                  pc[h] \notin {"idle", "returned"} }
    /\ \A h \in Handlers : pc[h] = "woken" => CtxDone(h)
    /\ \A i \in 1..Len(sendq) : pc[sendq[i]] = "parked"
    /\ \A h \in Handlers :
          /\ pc[h] \in {"idle", "acquire", "parked", "woken", "sent", "handed",
                        "mkdir", "running", "ran", "downloaded", "deliver",
                        "cleanup", "release", "returned"}
          /\ acqErr[h] \in {"none", "nil", "err"}
          /\ releases[h] \in 0..1
          /\ scratch[h] \in {"none", "exists", "removed"}
          /\ toolFiles[h] \subseteq ToolFiles
          /\ dlRes[h] \in {"none", "ok", "err"}
          /\ dlVal[h] \in BOOLEAN
          /\ dlWhy[h] \in {"none", "nil", "mkdir", "run", "noresult", "noinfo",
                           "info", "create", "rename"}
          /\ file[h] \in {"none", "placeholder", "video", "removed"}
          /\ fsize[h] \in FileSizes \cup {0}
          /\ marker[h] \in {"none", "bad", "downloading", "uploading"}
          /\ signals[h] \subseteq {"downloading", "uploading"}
          /\ delivered[h] \in {"none", "inline", "link"}

\* ------------------------------------------------------------ properties
\* Acquire returned nil to the handler and its Release has not run
Holds(h) == acqErr[h] = "nil" /\ pc[h] # "returned"

\* the handler is inside ytdlp.Download
InDownload(h) == pc[h] \in {"mkdir", "running", "ran"}

\* C1: with capacity N >= 1, the handlers that came back from Acquire with
\* nil and have not yet run Release number at most N, in every state.
C1_AtMostCapacityHolders ==
    capacity >= 1 => Cardinality({h \in Handlers : Holds(h)}) <= capacity

\* C1 witness: a full limiter with N holders while another handler waits
C1_FullWithWaiter ==
    /\ capacity >= 1
    /\ Cardinality({h \in Handlers : Holds(h)}) = capacity
    /\ \E h \in Handlers : pc[h] = "parked"

\* C2 (as claimed): once every handler has returned, by whatever path, the
\* limiter's occupancy is 0.
C2_EmptyWhenAllReturned ==
    (\A h \in Handlers : pc[h] = "returned") => lim = 0

\* C3 (as claimed): an Acquire that blocked on a full limiter and whose
\* context is cancelled before it returns comes back with the cancellation
\* error and leaves no element of its own in the channel, however the
\* cancellation interleaves with the other handlers' Release. The context
\* is the handler's own, the one Acquire is called with.
C3_BlockedAcquireCancelledTakesNoSlot ==
    [][\A h \in Handlers :
          (pc[h] \in {"parked", "woken", "handed"} /\ CtxDone(h)
              /\ acqErr[h] = "none" /\ acqErr'[h] # "none")
          => (acqErr'[h] = "err" /\ ~slot'[h])]_vars

\* C4: with capacity N >= 1 and no cancellation, an Acquire that finds fewer
\* than N elements in the channel goes through without waiting and one that
\* finds N waits; a waiting Acquire is resumed only by another handler's
\* Release, and every Acquire that went through returns nil.
C4_BlocksOnlyWhenFull ==
    [][\A h \in Handlers : (capacity >= 1 /\ ~ctxDone') =>
          /\ (pc[h] = "acquire" /\ pc'[h] # "acquire") =>
                pc'[h] = (IF lim < capacity THEN "sent" ELSE "parked")
          /\ (pc[h] = "parked" /\ pc'[h] # "parked") =>
                /\ pc'[h] = "handed"
                /\ \E g \in Handlers \ {h} :
                      pc[g] = "release" /\ pc'[g] = "returned"
          /\ (pc[h] \in {"sent", "handed"} /\ pc'[h] # pc[h]) =>
                (acqErr'[h] = "nil" /\ Holds(h)')]_vars

\* C4 witness: the (N+1)th Acquire resumed by a Release, nothing cancelled
C4_WaiterResumedByRelease ==
    /\ capacity >= 1
    /\ ~ctxDone
    /\ \E h \in Handlers : pc[h] = "handed"
    /\ \E g \in Handlers : pc[g] = "returned" /\ acqErr[g] = "nil"

\* C5 (as claimed): with capacity 0, Acquire with a live context returns nil
\* at once whatever the other handlers do, and Release returns at once and
\* changes nothing, so no handler waits in its deferred Release.
C5_ZeroCapacityNeverBlocks ==
    capacity = 0 =>
        /\ lim = 0
        /\ \A h \in Handlers :
              /\ pc[h] \notin {"parked", "woken", "sent", "handed"}
              /\ (acqErr[h] = "err" => calledDone[h])
              /\ (pc[h] = "release" => ENABLED Release(h))

\* C6: an Acquire called with an already cancelled context never returns
\* nil: it does not wait, and it returns an error, for capacity 0 and for
\* capacity >= 1, with or without a free slot.
C6_CancelledCallerGetsError ==
    \A h \in Handlers :
        calledDone[h] =>
            \/ pc[h] = "sent"
            \/ pc[h] = "returned" /\ acqErr[h] = "err"

\* C6 witness: a slot was free, the send went through, and Acquire still
\* returned the error to its already cancelled caller
C6_CancelledCallerWithFreeSlot ==
    \E h \in Handlers :
        calledDone[h] /\ capacity >= 1 /\ slot[h] /\ acqErr[h] = "err"

\* C7: a handler is inside Download only with a link extracted, Acquire
\* returned nil, its slot held and its Release still pending; it delivers
\* only after Download returned a result, still before its Release; and it
\* has run Release only after the delivery ended or an early exit was taken.
C7_PhaseOrder ==
    \A h \in Handlers :
        /\ (InDownload(h) \/ pc[h] \in {"downloaded", "deliver"}) =>
              /\ Holds(h)
              /\ outcome[h] = "none"
              /\ capacity >= 1 => slot[h]
              /\ Deferred(h, "Release")
        /\ (InDownload(h) \/ acqErr[h] # "nil") =>
              (dlRes[h] = "none" /\ delivered[h] = "none")
        /\ (pc[h] = "deliver" \/ delivered[h] # "none") => dlRes[h] = "ok"
        /\ outcome[h] = "nolink" => (acqErr[h] = "none" /\ dlRes[h] = "none")
        /\ (~Deferred(h, "Release") /\ acqErr[h] = "nil") =>
              (pc[h] = "returned" /\ outcome[h] # "none")

\* C7 witness: a handler that went through every phase and returned
C7_FullPipelineDone ==
    \E h \in Handlers :
        pc[h] = "returned" /\ delivered[h] = "inline" /\ capacity >= 1

\* the exit paths that are failures of the pipeline
FailureOutcomes ==
    {"nolink", "dl_fail", "stat_fail", "open_fail", "send_fail", "upload_fail"}

\* C8 (as claimed): a handler that returned through a failure path has sent
\* a failure reply to the user; only the cancelled Acquire returns without.
C8_EveryFailureReplies ==
    \A h \in Handlers :
        pc[h] = "returned" =>
            /\ outcome[h] \in FailureOutcomes => reply[h] # "none"
            /\ outcome[h] = "acq_cancel" => reply[h] = "none"

\* C9 (as claimed): once a handler whose Download returned a result has
\* returned, the relocated result file is gone, on every exit path.
C9_ResultFileRemoved ==
    \A h \in Handlers :
        (pc[h] = "returned" /\ dlRes[h] = "ok") => file[h] = "removed"

\* C10: once a Download call has returned, with a result or with any error,
\* its scratch directory does not exist; it exists only during the call.
C10_ScratchRemoved ==
    \A h \in Handlers :
        /\ dlRes[h] # "none" => scratch[h] # "exists"
        /\ scratch[h] = "exists" => pc[h] \in {"running", "ran"}

\* C10 witness: a Download that failed after its context was cancelled
\* during the run, its scratch directory removed
C10_FailedRunCleaned ==
    \E h \in Handlers :
        ctxDone /\ dlRes[h] = "err" /\ scratch[h] = "removed"

\* C11: every return of Download is one of the two pairs: a non-nil
\* Downloaded with a nil error, or a nil Downloaded with a non-nil error,
\* whichever step failed (scratch creation, run, file checks, metadata
\* open or decode, relocation).
C11_ResultXorError ==
    \A h \in Handlers :
        /\ dlWhy[h] # "none" =>
              \/ dlVal[h] /\ dlWhy[h] = "nil"
              \/ ~dlVal[h] /\ dlWhy[h] # "nil"
        /\ dlRes[h] # "none" => (dlVal[h] <=> dlRes[h] = "ok")
        /\ dlRes[h] = "none" => ~dlVal[h]

\* C11 witness: one Download has returned a failed relocation, another one
\* a result
C11_RenameFailedAndSucceeded ==
    \E g, h \in Handlers :
        /\ dlWhy[g] = "rename" /\ ~dlVal[g]
        /\ dlWhy[h] = "nil" /\ dlVal[h]

\* C12: when the runner reported success, Download returns a result only if
\* result.mp4 and result.info.json were both in the scratch directory; if
\* one is absent it returns an error, creates no relocated file, and the
\* scratch directory is removed.
C12_BothFilesRequired ==
    [][\A h \in Handlers :
          (pc[h] = "ran" /\ pc'[h] = "downloaded" /\ ~runErr[h]) =>
             LET both == {"result.mp4", "result.info.json"} \subseteq
                            toolFiles[h]
             IN  /\ dlVal'[h] => both
                 /\ ~both => /\ ~dlVal'[h]
                             /\ dlWhy'[h] \in {"noresult", "noinfo"}
                             /\ file'[h] = file[h]
                             /\ scratch'[h] = "removed"]_vars

\* C12 witness: a successful run that left the video without its metadata
\* file, rejected by Download with nothing relocated
C12_MissingInfoRejected ==
    \E h \in Handlers :
        /\ dlWhy[h] = "noinfo"
        /\ file[h] = "none"
        /\ scratch[h] = "removed"

\* the names result.<ext> the tool may give the video
VideoFiles == ToolFiles \ {InfoFile}

\* C13 (as claimed): when the tool exits 0 having written result.<ext>, for
\* whatever extension, together with result.info.json, Download does not
\* fail for a missing file (and succeeds when metadata and relocation work).
C13_AnyExtensionAccepted ==
    [][\A h \in Handlers :
          (/\ pc[h] = "ran" /\ pc'[h] = "downloaded"
           /\ ~runErr[h]
           /\ InfoFile \in toolFiles[h]
           /\ toolFiles[h] \cap VideoFiles # {}) =>
             dlWhy'[h] \notin {"noresult", "noinfo"}]_vars

\* C14: whenever Download has returned a result, the file it names exists,
\* is not inside the scratch directory and is still there after the
\* deferred removal of the scratch directory; it changes only when the
\* handler's own deferred os.Remove runs.
C14_ResultFileSurvives ==
    /\ [](\A h \in Handlers :
             (pc[h] = "downloaded" /\ dlVal[h]) =>
                 /\ file[h] = "video"
                 /\ scratch[h] = "removed"
                 /\ toolFiles[h] = {})
    /\ [][\A h \in Handlers :
             (file[h] = "video" /\ file'[h] # "video") =>
                 (pc[h] = "cleanup" /\ pc'[h] = "release")]_vars

\* C14 witness: Download has just returned a result, the scratch directory
\* is gone and the relocated file is there
C14_ReturnedFileExists ==
    \E h \in Handlers :
        /\ pc[h] = "downloaded" /\ dlWhy[h] = "nil" /\ dlVal[h]
        /\ scratch[h] = "removed"
        /\ file[h] = "video"

\* C15: a file of s bytes goes inline exactly when s <= 50 * 1024 * 1024
\* and to the durable store otherwise; each delivery takes one of the two
\* routes and never the other.
C15_SizeRouting ==
    [][\A h \in Handlers :
          (pc[h] = "deliver" /\ pc'[h] # "deliver") =>
             IF fsize[h] <= 50 * 1024 * 1024
               THEN /\ outcome'[h] \in {"ok_inline", "send_fail"}
                    /\ delivered'[h] \in {"none", "inline"}
                    /\ reply'[h] # "fail_upload"
               ELSE /\ outcome'[h] \in {"ok_link", "upload_fail"}
                    /\ delivered'[h] \in {"none", "link"}
                    /\ reply'[h] # "fail_send"]_vars

\* C15 witness: a file of exactly 50 MB was sent inline and one of 50 MB + 1
\* byte went out as a link
C15_BoundaryBothSides ==
    \E g, h \in Handlers :
        /\ pc[g] = "cleanup" /\ fsize[g] = 52428800
        /\ delivered[g] = "inline"
        /\ pc[h] = "cleanup" /\ fsize[h] = 52428801
        /\ delivered[h] = "link"

\* s is an initial part of t
IsPrefix(s, t) ==
    /\ Len(s) <= Len(t)
    /\ \A i \in 1..Len(s) : s[i] = t[i]

\* C16: UploadToFileBin takes its steps in the order size, hash, POST, check
\* for 201, PUT, check for 200; the hash is that of the whole content and is
\* the one the POST carries; the PUT is made only after a 201; once a step
\* has failed nothing more is done.
C16_UploadStepOrder ==
    /\ [](/\ IsPrefix(up.log, UploadSteps)
          /\ Len(up.log) >= 3 =>
                /\ up.req.hash = << "sha256", up.content >>
                /\ up.req.body = up.content
                /\ up.req.len = Len(up.content)
          /\ Len(up.log) >= 5 => up.status = 201)
    /\ [][up.err # "none" => up' = up]_vars

\* C16 witness: an upload answered with 500 ended the call before any lock
\* request
C16_ServerErrorStopsBeforeLock ==
    /\ up.pc = "returned"
    /\ up.status = 500
    /\ Len(up.content) = 2 /\ up.content[1] # up.content[2]
    /\ up.log = << "size", "hash", "post", "check201" >>

\* C17: the call returns the public URL with a nil error exactly when the
\* upload was answered with 201 and the lock with 200; every other return
\* is the empty URL with a non-nil error.
C17_UrlIffCreatedAndLocked ==
    up.pc = "returned" =>
        IF up.status = 201 /\ up.lockStatus = 200
          THEN /\ up.url = << "https://filebin.net", up.bin, up.name >>
               /\ up.err = "nil"
          ELSE /\ up.url = << >>
               /\ up.err \notin {"nil", "none"}

\* C17 witness: a call that returned the URL after upload and lock
C17_UrlReturned ==
    /\ up.pc = "returned"
    /\ up.err = "nil"
    /\ up.url = << "https://filebin.net", "bin-b", "video.mp4" >>
    /\ up.log = UploadSteps

C19_NoMarkerAfterReturn ==
    \A h \in Handlers : pc[h] = "returned" => marker[h] = "none"

\* C20: the stop function of setChatAction can be called again and again,
\* in any interleaving with the loop's own deferred stop: a call after the
\* context is cancelled changes nothing, the context stays cancelled, no
\* call panics and a call is never blocked.
C20_StopIdempotent ==
    /\ [](/\ ~sig.panicked
          /\ sig.stops >= 1 => sig.done
          /\ sig.loop = "exited" => sig.done
          /\ (sig.loop # "idle" /\ sig.stops < MaxStops) => ENABLED SigStop)
    /\ [][(sig.done /\ sig'.stops = sig.stops + 1) =>
             sig' = [sig EXCEPT !.stops = sig.stops + 1]]_vars

\* C20 witness: the loop has returned through its own deferred stop and the
\* handler has called stop twice
C20_StoppedThreeTimes ==
    /\ sig.loop = "exited"
    /\ sig.stops = 2
    /\ sig.sent >= 1
    /\ ~sig.parentDone

\* C21 (as claimed): the first notification is out before the pipeline
\* proceeds: a handler that calls stop on a live context for the first time
\* finds at least one notification sent.
C21_NotifiedBeforeHandlerProceeds ==
    [][(sig.stops = 0 /\ sig'.stops = 1 /\ ~sig.done) => sig.sent >= 1]_vars

\* C21 (amended): the goroutine started by setChatAction sends the first
\* notification as its first action unless its context is cancelled by
\* then, before any interval has passed, and one more after every tick that
\* finds the context live; the handler does not wait for it. Under fairness
\* the loop terminates once the action is stopped or the context cancelled.
C21_NotifyThenPerTick ==
    /\ [](/\ sig.loop = "start" => (sig.sent = 0 /\ sig.ticks = 0)
          /\ sig.loop = "wait" => sig.sent = sig.ticks + 1
          /\ sig.loop \in {"ticked", "notify"} => sig.sent = sig.ticks
          /\ sig.loop = "exited" => sig.sent \in {sig.ticks, sig.ticks + 1}
          /\ sig.ticks >= 1 => sig.sent >= 1)
    /\ [][(/\ sig.loop \in {"start", "ticked"}
           /\ sig'.loop # sig.loop
           /\ ~sig.done) => sig'.loop = "notify"]_vars
    /\ (sig.loop # "idle" /\ (sig.done \/ sig.parentDone))
          ~> (sig.loop = "exited")

\* C21 witness: the loop has sent the first notification and one after a
\* tick, was stopped by the handler and has returned
C21_TwoSentThenStopped ==
    /\ sig.loop = "exited"
    /\ sig.sent = 2 /\ sig.ticks = 2
    /\ sig.stops = 1
    /\ ~sig.failed /\ ~sig.parentDone

\* C22: a failed notification, the first or a later one, ends the loop of
\* its signal and nothing else: no further notification of the signal is
\* attempted, the handler's context is not cancelled, no state of the
\* pipeline changes and the handler can go on to call stop as usual.
C22_FailureEndsLoopOnly ==
    /\ [](/\ sig.failed => sig.loop = "exited"
          /\ (sig.failed /\ sig.stops < MaxStops) => ENABLED SigStop)
    /\ [][sig.failed => sig'.sent = sig.sent]_vars
    /\ [][(~sig.failed /\ sig'.failed) =>
             /\ sig'.parentDone = sig.parentDone
             /\ sig'.stops = sig.stops
             /\ UNCHANGED pipeVars]_vars

\* C22 witness: the notification after the first tick failed and the loop
\* has returned, the handler's context live and stop not yet called
C22_PeriodicNotifyFailed ==
    /\ sig.failed
    /\ sig.loop = "exited"
    /\ sig.sent = 2 /\ sig.ticks = 1
    /\ ~sig.parentDone
    /\ sig.stops = 0

\* C23: with pCtx never cancelled, every holder releasing and a fair
\* scheduler, a handler parked in Acquire eventually returns from Acquire
\* with a slot, however often the other handlers come back for more
C23_NoWaiterStarves ==
    \A h \in Handlers :
       (pc[h] = "parked") ~> (slot[h] /\ acqErr[h] = "nil")

\* a handler holds the slot that was handed to it while it was parked, and
\* the handler that released it is back in Acquire, parked in turn
C23_WaiterServedBeforeReturner ==
    \E h, g \in Handlers :
       /\ h # g
       /\ slot[h] /\ acqErr[h] = "nil" /\ pc[h] = "mkdir"
       /\ pc[g] = "parked"
       /\ sendq = << g >>

\* every line feed of s replaced by "; ", character by character
RECURSIVE ReplaceNewlines(_)
ReplaceNewlines(s) ==
    IF s = << >> THEN << >>
    ELSE (IF Head(s) = LF THEN << ";", " " >> ELSE << Head(s) >>)
            \o ReplaceNewlines(Tail(s))

\* C24: Run returns a result and no error when the process exited 0, and
\* no result and an error otherwise; the error is the underlying one
\* followed by ": " and stderr with every newline replaced by "; ", or the
\* underlying error alone when stderr is empty
C24_ResultXorErrorFlattened ==
    run.pc = "returned" =>
       /\ run.result <=> run.err = << >>
       /\ run.result <=> run.exit = "nil"
       /\ (run.exit # "nil" /\ run.stderr # << >>) =>
             run.err = << run.exit, ":", " " >> \o ReplaceNewlines(run.stderr)
       /\ (run.exit # "nil" /\ run.stderr = << >>) =>
             run.err = << run.exit >>

\* Run returned the error of a process that wrote an empty line between
\* two others
C24_EmptyLineFlattened ==
    /\ run.pc = "returned"
    /\ run.stderr = << "a", LF, LF >>
    /\ run.err = << "exit status 1", ":", " ", "a", ";", " ", ";", " " >>

\* the pieces that are white space
WhitePieces == { << " " >>, << TAB >>, << LF >> }

\* the pieces the pattern recognizes when they stand alone
TokenPieces ==
    {MarkdownLink, RawHttpLink, RawHttpsLink, BareWithPath, BareDomain,
     SchemeHost, UpperLink, IPv6Link, MappedLink}

\* white space follows every piece that is not white space or the last one
Separated(ps) ==
    \A i \in 1..(Len(ps) - 1) :
       ps[i] \notin WhitePieces => ps[i + 1] \in WhitePieces

\* the first recognizable piece of ps, << >> when there is none
FirstToken(ps) ==
    LET at == { i \in 1..Len(ps) : ps[i] \in TokenPieces }
    IN  IF at = {} THEN << >> ELSE ps[Least(at)]

\* a *url.URL by its parts
URLOf(scheme, host, path) ==
    [nil |-> FALSE, scheme |-> scheme, host |-> host, path |-> path]

Http == << "h", "t", "t", "p" >>

Https == << "h", "t", "t", "p", "s" >>

\* what url.Parse makes of a piece that is a link; the bare domain is
\* taken with https
PieceURL(piece) ==
    CASE piece = MarkdownLink -> URLOf(Https, << "m" >>, << "/", "p" >>)
      [] piece = RawHttpLink -> URLOf(Http, << "r" >>, << "/", "q" >>)
      [] piece = RawHttpsLink -> URLOf(Https, << "s" >>, << "/", "y" >>)
      [] piece = BareWithPath ->
            URLOf(Https, << "b", ".", "i", "o" >>, << "/", "x" >>)
      [] piece = UpperLink -> URLOf(Http, << "R" >>, << "/", "Q" >>)
      [] piece = IPv6Link ->
            URLOf(Http, << "[", ":", ":", "1", "]" >>, << "/", "p" >>)
      [] piece = MappedLink ->
            URLOf(Http, SubSeq(MappedLink, 8, 23), << "/", "p" >>)
      [] OTHER -> NilURL

\* C25: a text with exactly one markdown link and one or more bare links,
\* all set apart by white space, yields the markdown link's target,
\* wherever the bare links stand
C25_MarkdownPreferred ==
    (/\ ex.pc = "returned"
     /\ Separated(ex.pieces)
     /\ Cardinality({ i \in 1..Len(ex.pieces) :
                        ex.pieces[i] = MarkdownLink }) = 1
     /\ \E i \in 1..Len(ex.pieces) :
           ex.pieces[i] \in {RawHttpLink, RawHttpsLink, BareWithPath}
     /\ \A i \in 1..Len(ex.pieces) :
           ex.pieces[i] \notin {BareDomain, SchemeHost})
       => /\ ex.err = "nil"
          /\ ex.url = PieceURL(MarkdownLink)

\* C26: ExtractLink returns a URL and no error, or no URL and an error; a
\* returned URL has a scheme, a host and a path; a bare domain without a
\* path and a scheme with a host but no path are rejected
C26_UrlXorErrorWithPath ==
    ex.pc = "returned" =>
       /\ ex.url.nil <=> ex.err # "nil"
       /\ ~ex.url.nil =>
             /\ ex.url.scheme # << >>
             /\ ex.url.host # << >>
             /\ ex.url.path # << >>
       /\ TrimSpace(ex.text) \in {BareDomain, SchemeHost} =>
             ex.url.nil /\ ex.err # "nil"

\* ExtractLink turned down a bare domain that stands alone in its text
C26_BareDomainRejected ==
    /\ ex.pc = "returned"
    /\ ex.pieces = << BareDomain >>
    /\ ex.url.nil
    /\ ex.err = "invalid URL extracted"

\* C27: of the recognizable tokens of a text, set apart by white space,
\* only the first counts: if it is a link it is the one returned, if it
\* fails validation ExtractLink fails, whatever follows. A link to an
\* IPv4-mapped address fails validation with the net/url releases that
\* turn such a literal down.
C27_FirstTokenOnly ==
    (/\ ex.pc = "returned"
     /\ Separated(ex.pieces)
     /\ FirstToken(ex.pieces) # << >>)
       => IF \/ FirstToken(ex.pieces) \in {BareDomain, SchemeHost}
             \/ FirstToken(ex.pieces) = MappedLink /\ ex.release = "strict"
            THEN ex.url.nil /\ ex.err # "nil"
            ELSE ex.err = "nil" /\ ex.url = PieceURL(FirstToken(ex.pieces))

\* ExtractLink failed on a text whose first token has no path and whose
\* second token is a link
C27_FailedBeforeValidLink ==
    /\ ex.pc = "returned"
    /\ ex.pieces = << SchemeHost, << " " >>, RawHttpLink >>
    /\ ex.url.nil
    /\ ex.err = "invalid URL extracted"

\* C28: when the first recognizable token is a bare domain with a path the
\* URL returned is https, that domain and that path; when it starts with
\* http:// or https:// the URL returned has the token's own scheme, in
\* lower case (for a link to an IPv4-mapped address: with the net/url
\* releases that take such a literal)
C28_HttpsByDefault ==
    (ex.pc = "returned" /\ Separated(ex.pieces)) =>
       /\ FirstToken(ex.pieces) = BareWithPath =>
             /\ ex.err = "nil"
             /\ ex.url.scheme = Https
             /\ ex.url.host \o ex.url.path = BareWithPath
       /\ FirstToken(ex.pieces) = RawHttpLink =>
             /\ ex.err = "nil"
             /\ ex.url.scheme = Http
             /\ ex.url.scheme \o << ":", "/", "/" >> \o ex.url.host
                   \o ex.url.path = RawHttpLink
       /\ FirstToken(ex.pieces) = RawHttpsLink =>
             /\ ex.err = "nil"
             /\ ex.url.scheme = Https
             /\ ex.url.scheme \o << ":", "/", "/" >> \o ex.url.host
                   \o ex.url.path = RawHttpsLink
       /\ FirstToken(ex.pieces) = IPv6Link =>
             /\ ex.err = "nil"
             /\ ex.url.scheme = Http
             /\ ex.url.scheme \o << ":", "/", "/" >> \o ex.url.host
                   \o ex.url.path = IPv6Link
       /\ (FirstToken(ex.pieces) = MappedLink /\ ex.release # "strict") =>
             /\ ex.err = "nil"
             /\ ex.url.scheme = Http
             /\ ex.url.scheme \o << ":", "/", "/" >> \o ex.url.host
                   \o ex.url.path = MappedLink
       /\ FirstToken(ex.pieces) = UpperLink =>
             /\ ex.err = "nil"
             /\ ex.url.scheme = Http
             /\ << ":", "/", "/" >> \o ex.url.host \o ex.url.path
                   = SubSeq(UpperLink, 5, Len(UpperLink))

\* ExtractLink returned an https URL for a bare domain that follows a word
C28_BareDomainGotHttps ==
    /\ ex.pc = "returned"
    /\ ex.pieces = << Word, << " " >>, BareWithPath >>
    /\ ex.url = URLOf(Https, << "b", ".", "i", "o" >>, << "/", "x" >>)

\* C29: the empty text, a text of white space only and a text in which
\* nothing is recognized make ExtractLink fail: an error and no URL
C29_NothingToExtract ==
    (/\ ex.pc = "returned"
     /\ \/ ex.text = << >>
        \/ \A i \in 1..Len(ex.text) : ex.text[i] \in Space
        \/ \A i \in 1..Len(ex.pieces) :
              ex.pieces[i] \in WhitePieces \cup {Word})
       => ex.url.nil /\ ex.err # "nil"

\* ExtractLink failed on a line feed, a tab and a space
C29_WhiteSpaceRejected ==
    /\ ex.pc = "returned"
    /\ ex.text = << LF, TAB, " " >>
    /\ ex.url.nil
    /\ ex.err = "empty text provided"

\* C30: the limiter of a running bot that was configured with
\* WithMaxConcurrentDownloads, as the program configures every bot
\* (OptionSpec), has a capacity within 1..100. The capacity is the one
\* NewBot made the limiter with, and it stays; the command line turns down
\* the values below 1 and above 100, and the option brings its argument
\* into 1..100
C30_CapacityFixedWithinRange ==
    /\ [](cfg.pc = "running" =>
            /\ capacity \in 1..100
            /\ capacity = cfg.max
            /\ cfg.opt \in 1..100 => capacity = cfg.opt
            /\ cfg.opt < 1 => capacity = 1
            /\ cfg.opt > 100 => capacity = 100)
    /\ []((cfg.via = "cli" /\ cfg.set /\ cfg.flag \notin 1..100) =>
            cfg.pc \in {"flags", "rejected"})
    /\ []((cfg.via = "cli" /\ cfg.pc = "running") =>
            capacity = IF cfg.set THEN cfg.flag
                       ELSE DefaultMaxConcurrentDownloads)
    /\ [](cfg.pc \in {"rejected", "failed"} =>
            \A h \in Handlers : pc[h] = "idle")
    /\ [][cfg.pc = "running" => capacity' = capacity /\ cfg'.max = cfg.max]_vars

\* a bot runs with the limiter its option cut down to 100, one handler
\* holds a slot and another has returned its own
C30_ClampedBotAtWork ==
    /\ cfg.pc = "running"
    /\ cfg.via = "option"
    /\ cfg.opt = 101
    /\ capacity = 100
    /\ \E h, g \in Handlers : slot[h] /\ pc[g] = "returned"

\* C31: a handler whose ExtractLink failed has returned with the bad-input
\* reaction and the guidance reply; it never called Acquire or Download,
\* started no chat action, holds no slot and waits for none
C31_InvalidLinkSkipsPipeline ==
    \A h \in Handlers :
       outcome[h] = "nolink" =>
          /\ pc[h] = "returned"
          /\ marker[h] = "bad"
          /\ reply[h] = "guidance"
          /\ acqErr[h] = "none"
          /\ ~slot[h]
          /\ \A i \in 1..Len(sendq) : sendq[i] # h
          /\ scratch[h] = "none"
          /\ dlRes[h] = "none"
          /\ signals[h] = {}
          /\ delivered[h] = "none"

\* one handler has answered an invalid link while another holds the slot
C31_RejectedBesideHolder ==
    \E h, g \in Handlers :
       /\ outcome[h] = "nolink"
       /\ reply[h] = "guidance"
       /\ slot[g]
       /\ lim = 1

\* C32: a handler completes lim.Release() at most once, only after its
\* Acquire returned nil, and a handler that has returned has completed it
\* exactly when its Acquire returned nil
C32_ReleasePairedWithAcquire ==
    \A h \in Handlers :
       /\ releases[h] <= 1
       /\ releases[h] = 1 => acqErr[h] = "nil" /\ pc[h] = "returned"
       /\ pc[h] = "returned" => (releases[h] = 1 <=> acqErr[h] = "nil")
       /\ outcome[h] \in {"nolink", "acq_cancel"} => releases[h] = 0

\* one handler returned after its Release, another returned from a failed
\* Acquire without one
C32_ReleasedAndNotReleased ==
    \E h, g \in Handlers :
       /\ pc[h] = "returned" /\ acqErr[h] = "nil" /\ releases[h] = 1
       /\ pc[g] = "returned" /\ acqErr[g] = "err" /\ releases[g] = 0

\* the changes of a message's reaction the handler makes
MarkerSteps ==
    { << "none", "bad" >>, << "none", "downloading" >>,
      << "downloading", "uploading" >>, << "downloading", "none" >>,
      << "uploading", "none" >> }

\* C33: a message carries one reaction at most; it is the bad-input one
\* and stays, or the downloading one, then possibly the uploading one,
\* then none; the uploading one is there only after Download succeeded and
\* the file was stat-ed and opened
C33_MarkerSequence ==
    /\ [](\A h \in Handlers :
            /\ marker[h] \in {"none", "bad", "downloading", "uploading"}
            /\ marker[h] = "bad" <=> outcome[h] = "nolink"
            /\ marker[h] = "downloading" =>
                  acqErr[h] = "nil" /\ Deferred(h, "clearReactions")
            /\ marker[h] = "uploading" =>
                  /\ dlRes[h] = "ok"
                  /\ dlVal[h]
                  /\ Deferred(h, "Remove")
                  /\ Deferred(h, "Close")
                  /\ Deferred(h, "clearReactions")
            /\ (acqErr[h] = "nil" /\ pc[h] \in {"release", "returned"}) =>
                  marker[h] = "none")
    /\ [][\A h \in Handlers :
            marker'[h] # marker[h] =>
               /\ << marker[h], marker'[h] >> \in MarkerSteps
               /\ marker[h] = "none" => pc[h] \in {"idle", "acquire", "sent",
                                                   "handed"}]_vars

\* a message whose video was sent has lost its reactions, another still
\* carries the uploading one
C33_ClearedAfterUploading ==
    \E h, g \in Handlers :
       /\ outcome[h] = "ok_inline" /\ pc[h] = "returned" /\ marker[h] = "none"
       /\ marker[g] = "uploading" /\ pc[g] = "deliver"

\* the positions of arg in the list
Positions(list, arg) == { i \in 1..Len(list) : list[i] = arg }

\* the list with the element after --paths blanked
WithoutScratchDir(list) ==
    [i \in 1..Len(list) |->
        IF i > 1 /\ list[i - 1] = "--paths" THEN "" ELSE list[i]]

\* C34: the runner gets the fixed flags, then --cookies and the path
\* exactly when a cookies file is set, then --js-runtimes and the value
\* exactly when runtimes are set, then the URL as the last argument; but
\* for the scratch directory the list is determined by options and URL
C34_ArgumentList ==
    inv.pc = "run" =>
       LET n == Len(FixedArgs(inv.tmpDir))
           c == IF inv.cookiesFile # "" THEN 2 ELSE 0
           j == IF inv.jsRuntimes # "" THEN 2 ELSE 0
       IN  /\ Len(inv.args) = n + c + j + 1
           /\ SubSeq(inv.args, 1, n) = FixedArgs(inv.tmpDir)
           /\ inv.args[Len(inv.args)] = inv.url
           /\ Positions(inv.args, "--cookies")
                 = IF inv.cookiesFile # "" THEN {n + 1} ELSE {}
           /\ inv.cookiesFile # "" => inv.args[n + 2] = inv.cookiesFile
           /\ Positions(inv.args, "--js-runtimes")
                 = IF inv.jsRuntimes # "" THEN {n + c + 1} ELSE {}
           /\ inv.jsRuntimes # "" => inv.args[n + c + 2] = inv.jsRuntimes
           /\ \A d \in ScratchDirs :
                 WithoutScratchDir(inv.args)
                    = WithoutScratchDir(
                         Append(Args(d, inv.cookiesFile, inv.jsRuntimes),
                                inv.url))

\* the runner was called with runtimes, without cookies: the cookies
\* option was given and then given again with an empty path
C34_RuntimesWithoutCookies ==
    /\ inv.pc = "run"
    /\ inv.opts = << [kind |-> "js", val |-> "node"],
                     [kind |-> "cookies", val |-> ""] >>
    /\ Len(inv.args) = Len(FixedArgs(inv.tmpDir)) + 3
    /\ inv.args[Len(inv.args)] = "https://b/2"
    /\ inv.args[Len(inv.args) - 1] = "node"

\* C35: Start returns only after its context was cancelled and
\* client.Stop() was called and has returned; while the context is not
\* cancelled Start stays blocked, also after the polling loop returned;
\* once the context is cancelled Start returns
C35_StartBlocksUntilStopped ==
    /\ [](st.pc = "returned" =>
            st.ctxDone /\ st.stopCalled /\ st.stopped)
    /\ [](st.stopCalled => st.ctxDone)
    /\ []((st.pc = "waiting" /\ ~st.ctxDone) => ~ENABLED StReturn)
    /\ (st.pc # "idle" /\ st.ctxDone) ~> (st.pc = "returned")

\* the polling loop has returned on its own, with a handler still at work,
\* and Start is blocked: the context is not cancelled
C35_BlockedAfterPollingEnded ==
    /\ st.pc = "waiting"
    /\ ~st.ctxDone
    /\ ~st.stopCalled
    /\ st.updates = 2
    /\ st.handled = 1

\* C36: with a pid file configured and not in healthcheck mode, a file that
\* exists at startup makes the action return an error, with no bot started
\* and the file as it was found; a file that does not exist is written
\* before the bot starts and is removed when the action returns. In
\* healthcheck mode the file is only read and no bot is started.
C36_PidFileLifecycle ==
    /\ (pid.flagPath /\ ~pid.flagHealth /\ StatOk(pid.found)) =>
          /\ pid.bot = "none"
          /\ pid.disk = pid.found
          /\ pid.writes = 0
          /\ pid.removes = 0
          /\ pid.pc = "returned" => pid.err = "exists"
    /\ (pid.flagPath /\ ~pid.flagHealth /\ pid.found = "absent") =>
          /\ pid.bot # "none" => pid.writes = 1
          /\ pid.bot = "started" => pid.disk = "own"
          /\ pid.writes <= 1
          /\ pid.removes <= pid.writes
          /\ pid.pc = "returned" =>
                /\ pid.disk = "absent"
                /\ pid.removes = pid.writes
    /\ pid.flagHealth =>
          /\ pid.bot = "none"
          /\ pid.disk = pid.found
          /\ pid.writes = 0
          /\ pid.removes = 0
          /\ pid.reads <= 1

\* the file was written, the bot ran and stopped, and the file is gone
C36_WrittenServedRemoved ==
    /\ pid.pc = "returned"
    /\ pid.flagPath
    /\ ~pid.flagHealth
    /\ pid.found = "absent"
    /\ pid.bot = "stopped"
    /\ pid.writes = 1
    /\ pid.removes = 1
    /\ pid.disk = "absent"

\* C37 (as claimed): once a call of the stop function has returned, no
\* further notification of the signal is sent.
C37_NoNotifyAfterStop ==
    [][sig.stops >= 1 => sig'.sent = sig.sent]_vars

\* C38 (as claimed): when Download has returned an error, nothing it created
\* is left on disk: the scratch directory is gone and no file made by
\* os.CreateTemp remains.
C38_NothingLeftOnError ==
    \A h \in Handlers :
       dlRes[h] = "err" =>
          /\ scratch[h] # "exists"
          /\ file[h] \notin {"placeholder", "video"}

====
